---- MODULE Spec2Model ----
(***************************************************************************)
(* Model of the reference-resolution and page/text-highlighting subsystem  *)
(* of the doc-analysis reviewer UI.                                         *)
(*                                                                         *)
(*   - utils/pageReferences (src/unnamed/part_012, lines 234-498):          *)
(*     resolveSheetToPdfPage, extractReferencesFromField,                   *)
(*     extractSheetSpecificDescription, extractReferencesFromSolution,      *)
(*     extractPageReferences.                                               *)
(*   - components/PdfViewer.tsx (second revision, lines 206-439) with       *)
(*     hooks/usePdfSearch (src/unnamed/part_014) and the App handlers       *)
(*     that drive it (src/unnamed/part_004).                                *)
(*                                                                         *)
(* A JavaScript string is modelled as the sequence of its UTF-16 code      *)
(* units (natural numbers), so that character classes, case folding and    *)
(* lengths are those of the program.                                        *)
(***************************************************************************)
EXTENDS Integers, Sequences, FiniteSets, TLC

(***************************************************************************)
(* Characters and strings                                                   *)
(***************************************************************************)

\* ECMAScript WhiteSpace and LineTerminator code units: what \s matches and
\* what String.prototype.trim removes.
LineTerminators == {10, 13, 8232, 8233}

WhiteSpace == {9, 11, 12, 32, 160, 5760, 8239, 8287, 12288, 65279}
                 \cup (8192..8202) \cup LineTerminators

Digits == 48..57

\* \w without the u flag: ASCII letters, digits and underscore only.
WordChars == (65..90) \cup (97..122) \cup Digits \cup {95}

\* The three dashes of the source's classes [-–—]: hyphen, en dash, em dash.
Dashes == {45, 8211, 8212}

\* А-Я, Ё and а-я, ё.
CyrUpper == (1040..1071) \cup {1025}

CyrLower == (1072..1103) \cup {1105}

\* String.prototype.toLowerCase on one code unit (Latin and Cyrillic letters).
LowerChar(c) ==
    IF c \in 65..90 THEN c + 32
    ELSE IF c \in 1040..1071 THEN c + 32
    ELSE IF c = 1025 THEN 1105
    ELSE c

\* The Canonicalize operation of a RegExp with the i flag (toUpperCase).
UpperChar(c) ==
    IF c \in 97..122 THEN c - 32
    ELSE IF c \in 1072..1103 THEN c - 32
    ELSE IF c = 1105 THEN 1025
    ELSE c

toLowerCase(s) == [k \in 1..Len(s) |-> LowerChar(s[k])]

\* s.substring(a, b) with 0-based a, b already clamped by the caller's code
\* to 0 <= a; b is clamped to the length here as substring does.
Substring(s, a, b) ==
    LET e == IF b > Len(s) THEN Len(s) ELSE b
        f == IF a > e THEN e ELSE a
    IN  SubSeq(s, f + 1, e)

\* Number of leading characters of s that are in set S.
LeadRun(s, S) ==
    LET stops == {k \in 1..Len(s) : s[k] \notin S}
    IN  IF stops = {} THEN Len(s)
        ELSE (CHOOSE k \in stops : \A j \in stops : k <= j) - 1

\* Number of trailing characters of s that are in set S.
TrailRun(s, S) ==
    LET stops == {k \in 1..Len(s) : s[k] \notin S}
    IN  IF stops = {} THEN Len(s)
        ELSE Len(s) - (CHOOSE k \in stops : \A j \in stops : k >= j)

\* s.replace(/^[S]+/, '')
StripLead(s, S) == SubSeq(s, LeadRun(s, S) + 1, Len(s))

\* s.replace(/[S]+$/, '')
StripTrail(s, S) == SubSeq(s, 1, Len(s) - TrailRun(s, S))

\* String.prototype.trim
Trim(s) == StripTrail(StripLead(s, WhiteSpace), WhiteSpace)

\* 0-based index of the first occurrence of needle in hay at or after
\* 0-based position from, or -1 (String.prototype.indexOf).
IndexOf(hay, needle, from) ==
    LET n == Len(needle)
        hits == {k \in from..(Len(hay) - n) : SubSeq(hay, k + 1, k + n) = needle}
    IN  IF hits = {} THEN -1 ELSE CHOOSE k \in hits : \A j \in hits : k <= j

\* String.prototype.includes
Includes(hay, needle) == IndexOf(hay, needle, 0) >= 0

\* Array.prototype.join of a sequence of strings.
RECURSIVE Join(_, _)
Join(parts, sep) ==
    IF Len(parts) = 0 THEN <<>>
    ELSE IF Len(parts) = 1 THEN parts[1]
    ELSE parts[1] \o sep \o Join(Tail(parts), sep)

\* The k-th smallest element of a finite set of integers.
KthOf(S, k) == CHOOSE i \in S : Cardinality({j \in S : j <= i}) = k

\* Array.prototype.filter: the subsequence of xs at the indices in keep.
FilterIdx(xs, keep) == [k \in 1..Cardinality(keep) |-> xs[KthOf(keep, k)]]

\* s.split(/\s+/): the maximal runs of characters that are not white space,
\* with an empty first (last) piece when s starts (ends) with white space;
\* the empty string splits into one empty piece.
SplitWs(s) ==
    LET n == Len(s)
        starts == {k \in 1..n : s[k] \notin WhiteSpace /\ (k = 1 \/ s[k - 1] \in WhiteSpace)}
        runFrom(k) == LET stops == {j \in k..n : s[j] \in WhiteSpace}
                      IN  IF stops = {} THEN SubSeq(s, k, n)
                          ELSE SubSeq(s, k, (CHOOSE j \in stops : \A i \in stops : j <= i) - 1)
        words == [k \in 1..Cardinality(starts) |-> runFrom(KthOf(starts, k))]
    IN  IF n = 0 THEN << <<>> >>
        ELSE (IF s[1] \in WhiteSpace THEN << <<>> >> ELSE <<>>)
             \o words
             \o (IF s[n] \in WhiteSpace THEN << <<>> >> ELSE <<>>)

\* xs.slice(0, n)
Slice0(xs, n) == SubSeq(xs, 1, IF n > Len(xs) THEN Len(xs) ELSE n)

(***************************************************************************)
(* Regular expressions                                                      *)
(*                                                                         *)
(* The program's regular expressions are kept as syntax trees and run by a *)
(* backtracking matcher with the ECMAScript semantics the program relies   *)
(* on: leftmost match, alternatives tried left to right, greedy and lazy   *)
(* quantifiers, capture groups, positive lookahead, \b and $, and the i    *)
(* flag (comparison of canonicalized characters).                          *)
(***************************************************************************)

\* A pattern is a sequence of items, matched one after the other:
\*   set    one character of (or, negated, not of) a set
\*   str    a literal text
\*   alt    alternatives (patterns), tried left to right
\*   rep    a quantified pattern, greedy or lazy, min..max times
\*   open, close   the start and the end of capture group n
\*   look   a positive lookahead (?=...)
\*   bnd    \b          end    $ (without the m flag)

\* No upper limit of a quantifier (*, +).
Inf == -1

RSet(S) == <<[t |-> "set", s |-> S, neg |-> FALSE]>>

RNot(S) == <<[t |-> "set", s |-> S, neg |-> TRUE]>>

\* . matches any character except a line terminator.
RAny == RNot(LineTerminators)

RStr(str) == <<[t |-> "str", str |-> str]>>

RAlt(xs) == <<[t |-> "alt", xs |-> xs]>>

RRep(x, min, max) ==
    <<[t |-> "rep", x |-> x, min |-> min, max |-> max, greedy |-> TRUE, at |-> 0]>>

RLazy(x, min, max) ==
    <<[t |-> "rep", x |-> x, min |-> min, max |-> max, greedy |-> FALSE, at |-> 0]>>

ROpt(x) == RRep(x, 0, 1)

RStar(x) == RRep(x, 0, Inf)

RPlus(x) == RRep(x, 1, Inf)

RGrp(n, x) == <<[t |-> "open", n |-> n]>> \o x \o <<[t |-> "close", n |-> n]>>

RLook(x) == <<[t |-> "look", x |-> x]>>

RBnd == <<[t |-> "bnd"]>>

REnd == <<[t |-> "end"]>>

\* \s, \w (= [\w\d]), \d
RSpace == RSet(WhiteSpace)

RWord == RSet(WordChars)

RDigit == RSet(Digits)

\* Whether character c is matched by a class with member set S.
ClassHas(S, c, ic) ==
    c \in S \/ (ic /\ (UpperChar(c) \in S \/ LowerChar(c) \in S))

\* Whether the class item x matches c.
CharMatches(x, c, ic) == ClassHas(x.s, c, ic) # x.neg

\* Whether the literal text str stands in s at position i.
StrAt(str, s, i, ic) ==
    /\ i + Len(str) - 1 <= Len(s)
    /\ \A k \in 1..Len(str) :
          s[i + k - 1] = str[k] \/ (ic /\ UpperChar(s[i + k - 1]) = UpperChar(str[k]))

NoCaps == <<<<-1, -1>>, <<-1, -1>>>>

Fail == [ok |-> FALSE, end |-> 0, caps |-> NoCaps]

IsWordAt(s, i) == i >= 1 /\ i <= Len(s) /\ s[i] \in WordChars

\* How many characters of s from position i on the class item x matches in
\* a row, up to max.
RunLength(x, s, i, max, ic) ==
    LET room == Len(s) - i + 1
        lim == IF max = Inf \/ max > room THEN room ELSE max
        stops == {k \in 0..(lim - 1) : ~CharMatches(x, s[i + k], ic)}
    IN  IF stops = {} THEN lim ELSE CHOOSE k \in stops : \A j \in stops : k <= j

\* A necessary condition for the items st to match s from position i,
\* read off the first items; Run is only tried where it holds.
RECURSIVE CanStart(_, _, _, _)
CanStart(st, s, i, ic) ==
    IF Len(st) = 0 THEN TRUE
    ELSE
    LET h == st[1]
        tl == Tail(st)
    IN  CASE h.t = "set" -> i <= Len(s) /\ CharMatches(h, s[i], ic)
          [] h.t = "str" -> StrAt(h.str, s, i, ic)
          [] h.t = "alt" -> \E k \in 1..Len(h.xs) : CanStart(h.xs[k] \o tl, s, i, ic)
          [] h.t = "rep" -> IF h.min = 0
                            THEN CanStart(h.x, s, i, ic) \/ CanStart(tl, s, i, ic)
                            ELSE CanStart(h.x, s, i, ic)
          [] h.t \in {"open", "close"} -> CanStart(tl, s, i, ic)
          [] h.t = "look" -> CanStart(h.x, s, i, ic) /\ CanStart(tl, s, i, ic)
          [] h.t = "bnd" -> IsWordAt(s, i - 1) # IsWordAt(s, i) /\ CanStart(tl, s, i, ic)
          [] h.t = "end" -> i = Len(s) + 1 /\ CanStart(tl, s, i, ic)

\* Run the items st against s from position i (1-based index of the next
\* character), with the captures so far; ic is the i flag.  The result is
\* the first match in backtracking order, or Fail.  A quantified class is
\* not unrolled character by character: the run lengths it admits are tried
\* in backtracking order, longest first when greedy and shortest first when
\* lazy (TryLengths).
RECURSIVE Run(_, _, _, _, _), TryLengths(_, _, _, _, _, _, _, _)
Run(st, s, i, caps, ic) ==
    IF Len(st) = 0 THEN [ok |-> TRUE, end |-> i, caps |-> caps]
    ELSE
    LET h == st[1]
        tl == Tail(st)
    IN  CASE h.t = "set" ->
               IF i <= Len(s) /\ CharMatches(h, s[i], ic)
               THEN Run(tl, s, i + 1, caps, ic) ELSE Fail
          [] h.t = "str" ->
               IF StrAt(h.str, s, i, ic) THEN Run(tl, s, i + Len(h.str), caps, ic) ELSE Fail
          [] h.t = "alt" ->
               IF Len(h.xs) = 0 THEN Fail
               ELSE LET r == Run(h.xs[1] \o tl, s, i, caps, ic)
                    IN  IF r.ok THEN r
                        ELSE Run(RAlt(Tail(h.xs)) \o tl, s, i, caps, ic)
          [] h.t = "rep" /\ h.at = i /\ h.at # 0 ->
               \* the iteration just made matched the empty string
               Fail
          [] h.t = "rep" /\ ~(h.at = i /\ h.at # 0) /\ Len(h.x) = 1 /\ h.x[1].t = "set" ->
               TryLengths(tl, s, i, caps, ic, h.min,
                          RunLength(h.x[1], s, i, h.max, ic), h.greedy)
          [] h.t = "rep" /\ ~(h.at = i /\ h.at # 0) /\ ~(Len(h.x) = 1 /\ h.x[1].t = "set") ->
               LET iter == Run(h.x \o <<[h EXCEPT !.min = IF h.min > 0 THEN h.min - 1 ELSE 0,
                                                  !.max = IF h.max = Inf THEN Inf ELSE h.max - 1,
                                                  !.at = IF h.min = 0 THEN i ELSE 0]>> \o tl,
                               s, i, caps, ic)
                   skip == Run(tl, s, i, caps, ic)
               IN  IF h.max = 0 THEN skip
                   ELSE IF h.min > 0 THEN iter
                   ELSE IF h.greedy THEN (IF iter.ok THEN iter ELSE skip)
                   ELSE (IF skip.ok THEN skip ELSE iter)
          [] h.t = "open" ->
               Run(tl, s, i, [caps EXCEPT ![h.n] = <<i - 1, -1>>], ic)
          [] h.t = "close" ->
               Run(tl, s, i, [caps EXCEPT ![h.n] = <<caps[h.n][1], i - 1>>], ic)
          [] h.t = "look" ->
               IF Run(h.x, s, i, caps, ic).ok THEN Run(tl, s, i, caps, ic) ELSE Fail
          [] h.t = "bnd" ->
               IF IsWordAt(s, i - 1) # IsWordAt(s, i) THEN Run(tl, s, i, caps, ic) ELSE Fail
          [] h.t = "end" ->
               IF i = Len(s) + 1 THEN Run(tl, s, i, caps, ic) ELSE Fail

\* The first success in backtracking order among the run lengths lo..hi of
\* a quantified class, each followed by the items st: the first length in
\* that order at which st can start, then the two halves of the others.
TryLengths(st, s, i, caps, ic, lo, hi, greedy) ==
    LET Halves(a, b, mid) ==
            LET Other(first) ==
                    IF first.ok THEN first
                    ELSE IF greedy THEN TryLengths(st, s, i, caps, ic, a, mid, greedy)
                    ELSE TryLengths(st, s, i, caps, ic, mid + 1, b, greedy)
            IN  Other(IF greedy THEN TryLengths(st, s, i, caps, ic, mid + 1, b, greedy)
                      ELSE TryLengths(st, s, i, caps, ic, a, mid, greedy))
        After(best, top) ==
            IF top.ok THEN top
            ELSE IF greedy
            THEN (IF lo > best - 1 THEN Fail ELSE Halves(lo, best - 1, (lo + best - 1) \div 2))
            ELSE (IF best + 1 > hi THEN Fail ELSE Halves(best + 1, hi, (best + 1 + hi) \div 2))
        Try(best) == After(best, Run(st, s, i + best, caps, ic))
        Pick(cands) ==
            IF cands = {} THEN Fail
            ELSE Try(IF greedy THEN CHOOSE n \in cands : \A m \in cands : m <= n
                     ELSE CHOOSE n \in cands : \A m \in cands : n <= m)
    IN  Pick({n \in lo..hi : CanStart(st, s, i + n, ic)})

NoMatch == [ok |-> FALSE, index |-> -1, end |-> -1, caps |-> NoCaps]

\* The leftmost match of pattern re in s that starts at one of the 1-based
\* positions lo..hi: at the first position where re can start, else in the
\* two halves of the others.
RECURSIVE FirstMatch(_, _, _, _, _)
FirstMatch(re, s, lo, hi, ic) ==
    LET Halves(a, mid) ==
            LET Other(left) == IF left.ok THEN left ELSE FirstMatch(re, s, mid + 1, hi, ic)
            IN  Other(FirstMatch(re, s, a, mid, ic))
        After(p0, r) ==
            IF r.ok THEN [ok |-> TRUE, index |-> p0 - 1, end |-> r.end - 1, caps |-> r.caps]
            ELSE IF p0 + 1 > hi THEN NoMatch
            ELSE Halves(p0 + 1, (p0 + 1 + hi) \div 2)
        Try(p0) == After(p0, Run(re, s, p0, NoCaps, ic))
        Pick(starts) ==
            IF starts = {} THEN NoMatch
            ELSE Try(CHOOSE p \in starts : \A q \in starts : p <= q)
    IN  Pick({p \in lo..hi : CanStart(re, s, p, ic)})

\* Whether every literal text that pattern re requires (its items that are
\* literal texts) occurs in s at or after 1-based position lo.
HasRequired(re, s, lo, ic) ==
    \A k \in 1..Len(re) :
        re[k].t = "str" => \E p \in lo..(Len(s) + 1) : StrAt(re[k].str, s, p, ic)

\* One RegExp.prototype.exec step of a global regular expression: the first
\* match starting at or after 0-based lastIndex, as
\* [ok, index, end, caps] with 0-based index and end (exclusive).
ExecFrom(re, s, lastIndex, ic) ==
    IF HasRequired(re, s, lastIndex + 1, ic)
    THEN FirstMatch(re, s, lastIndex + 1, Len(s) + 1, ic)
    ELSE NoMatch

\* All matches of a global regular expression, in order (String.prototype
\* .match with g, matchAll, or an exec loop): after an empty match the
\* search resumes one character further on.
RECURSIVE MatchAllFrom(_, _, _, _)
MatchAllFrom(re, s, lastIndex, ic) ==
    LET Rest(m) ==
            IF ~m.ok THEN <<>>
            ELSE <<m>> \o MatchAllFrom(re, s, IF m.end = m.index THEN m.end + 1 ELSE m.end, ic)
    IN  IF lastIndex > Len(s) THEN <<>> ELSE Rest(ExecFrom(re, s, lastIndex, ic))

MatchAll(re, s, ic) == MatchAllFrom(re, s, 0, ic)

\* The text of capture group n of match m ("" stands for undefined as well:
\* the program only tests captures for truthiness).
Capture(s, m, n) ==
    IF m.caps[n][1] < 0 THEN <<>> ELSE SubSeq(s, m.caps[n][1] + 1, m.caps[n][2])

\* The matched text m[0].
Matched(s, m) == SubSeq(s, m.index + 1, m.end)

\* s.match(re) || [] for a global re: the texts of all matches.
MatchTexts(re, s, ic) ==
    LET Texts(ms) == [k \in 1..Len(ms) |-> Matched(s, ms[k])]
    IN  Texts(MatchAll(re, s, ic))

(***************************************************************************)
(* utils/pageReferences (src/unnamed/part_012, lines 234-498)               *)
(***************************************************************************)

\* The value undefined of an optional string argument: no string.
Undefined == <<-1>>

\* Texts of the source's patterns and templates.
TxtNa == <<1085, 1072>>   \* "на"

TxtList == <<1083, 1080, 1089, 1090>>   \* "лист"

TxtStranic == <<1089, 1090, 1088, 1072, 1085, 1080, 1094>>   \* "страниц"

TxtDots == <<46, 46, 46>>   \* "..."

TxtCommaSpace == <<44, 32>>   \* ", "

TxtSpace == <<32>>   \* " "

TxtDash == <<45>>   \* "-"

\* "Упоминание листа " and " в проектной документации"
TxtMention == <<1059, 1087, 1086, 1084, 1080, 1085, 1072, 1085, 1080, 1077, 32, 1083, 1080, 1089, 1090, 1072, 32>>

TxtInDocs == <<32, 1074, 32, 1087, 1088, 1086, 1077, 1082, 1090, 1085, 1086, 1081, 32, 1076, 1086, 1082, 1091, 1084, 1077, 1085, 1090, 1072, 1094, 1080, 1080>>

\* и|в|на|с|по|для|или|также|а|но|от|до|из|при
StopWords == {<<1080>>,
              <<1074>>,
              <<1085, 1072>>,
              <<1089>>,
              <<1087, 1086>>,
              <<1076, 1083, 1103>>,
              <<1080, 1083, 1080>>,
              <<1090, 1072, 1082, 1078, 1077>>,
              <<1072>>,
              <<1085, 1086>>,
              <<1086, 1090>>,
              <<1076, 1086>>,
              <<1080, 1079>>,
              <<1087, 1088, 1080>>}

\* где|на котором|который показывает|содержащий|с указанием
WhereWords == <<<<1075, 1076, 1077>>,
               <<1085, 1072, 32, 1082, 1086, 1090, 1086, 1088, 1086, 1084>>,
               <<1082, 1086, 1090, 1086, 1088, 1099, 1081, 32, 1087, 1086, 1082, 1072, 1079, 1099, 1074, 1072, 1077, 1090>>,
               <<1089, 1086, 1076, 1077, 1088, 1078, 1072, 1097, 1080, 1081>>,
               <<1089, 32, 1091, 1082, 1072, 1079, 1072, 1085, 1080, 1077, 1084>>>>

\* parseInt(str, 10): leading white space, an optional sign, then the
\* longest run of decimal digits; NaN when there is no digit.
RECURSIVE DigitsValue(_, _)
DigitsValue(ds, acc) ==
    IF Len(ds) = 0 THEN acc ELSE DigitsValue(Tail(ds), acc * 10 + (ds[1] - 48))

parseInt(str) ==
    LET a == StripLead(str, WhiteSpace)
        signed == Len(a) > 0 /\ a[1] \in {43, 45}
        b == IF signed THEN Tail(a) ELSE a
        n == LeadRun(b, Digits)
        v == DigitsValue(SubSeq(b, 1, n), 0)
    IN  [nan |-> n = 0, val |-> IF signed /\ a[1] = 45 THEN 0 - v ELSE v]

\* The names of the properties an object literal inherits from
\* Object.prototype: constructor, toString, toLocaleString, valueOf,
\* hasOwnProperty, isPrototypeOf, propertyIsEnumerable, __proto__,
\* __defineGetter__, __defineSetter__, __lookupGetter__, __lookupSetter__.
ObjectPrototype ==
    <<<<99, 111, 110, 115, 116, 114, 117, 99, 116, 111, 114>>,
      <<116, 111, 83, 116, 114, 105, 110, 103>>,
      <<116, 111, 76, 111, 99, 97, 108, 101, 83, 116, 114, 105, 110, 103>>,
      <<118, 97, 108, 117, 101, 79, 102>>,
      <<104, 97, 115, 79, 119, 110, 80, 114, 111, 112, 101, 114, 116, 121>>,
      <<105, 115, 80, 114, 111, 116, 111, 116, 121, 112, 101, 79, 102>>,
      <<112, 114, 111, 112, 101, 114, 116, 121, 73, 115, 69, 110, 117, 109, 101, 114, 97, 98, 108, 101>>,
      <<95, 95, 112, 114, 111, 116, 111, 95, 95>>,
      <<95, 95, 100, 101, 102, 105, 110, 101, 71, 101, 116, 116, 101, 114, 95, 95>>,
      <<95, 95, 100, 101, 102, 105, 110, 101, 83, 101, 116, 116, 101, 114, 95, 95>>,
      <<95, 95, 108, 111, 111, 107, 117, 112, 71, 101, 116, 116, 101, 114, 95, 95>>,
      <<95, 95, 108, 111, 111, 107, 117, 112, 83, 101, 116, 116, 101, 114, 95, 95>>>>

\* The value of an inherited property is a function or an object and no
\* number; the k-th one is written -k.  A page that is a number is positive.
IsNumber(page) == page > 0

\* sheetToPdfMapping[sheetRef]: the mapping is an object with sheet labels as
\* keys and page numbers as values; a key it does not have reads as the
\* property inherited under that name, or as undefined (0 here: falsy).
MapGet(sheetToPdfMapping, sheetRef) ==
    IF sheetRef \in DOMAIN sheetToPdfMapping THEN sheetToPdfMapping[sheetRef]
    ELSE IF \E k \in 1..Len(ObjectPrototype) : ObjectPrototype[k] = sheetRef
         THEN 0 - (CHOOSE k \in 1..Len(ObjectPrototype) : ObjectPrototype[k] = sheetRef)
         ELSE 0

\* A faulty variant of resolveSheetToPdfPage that tries the numeric parse
\* before the mapping.
resolveNumericFirst(sheetRef, sheetToPdfMapping) ==
    LET Plausible(numericPage) ==
            IF ~numericPage.nan /\ numericPage.val > 0 /\ numericPage.val < 500
            THEN numericPage.val
            ELSE MapGet(sheetToPdfMapping, sheetRef)
    IN  Plausible(parseInt(sheetRef))

\* A faulty variant of resolveSheetToPdfPage that accepts page 500.
resolveUpTo500(sheetRef, sheetToPdfMapping) ==
    LET Plausible(numericPage) ==
            IF ~numericPage.nan /\ numericPage.val > 0 /\ numericPage.val <= 500
            THEN numericPage.val
            ELSE 0
    IN  IF MapGet(sheetToPdfMapping, sheetRef) # 0
        THEN MapGet(sheetToPdfMapping, sheetRef)
        ELSE Plausible(parseInt(sheetRef))

\* resolveSheetToPdfPage: the mapped page if truthy, else the label's
\* integer parse if 0 < n < 500, else null (0 here).
resolveSheetToPdfPage(sheetRef, sheetToPdfMapping) ==
    LET Plausible(numericPage) ==
            IF ~numericPage.nan /\ numericPage.val > 0 /\ numericPage.val < 500
            THEN numericPage.val
            ELSE 0
    IN  IF MapGet(sheetToPdfMapping, sheetRef) # 0
        THEN MapGet(sheetToPdfMapping, sheetRef)
        ELSE Plausible(parseInt(sheetRef))

\* /[\w\d]+(?:[-–—.]\w*)*/g : a sheet label
SheetRefRegex == RPlus(RWord) \o RStar(RSet(Dashes \cup {46}) \o RStar(RWord))

\* (?:на\s+)?
OptNa == ROpt(RStr(TxtNa) \o RPlus(RSpace))

\* (?:лист[еа]?)
ListEA == RStr(TxtList) \o ROpt(RSet({1077, 1072}))

\* The label as it is spliced into a pattern's source text:
\* sheetRef.trim().replace(/\s+/g, '\\s*'), where every other character
\* stands for itself except the dot, which is the wildcard.  Each run of
\* white space becomes one \s*, each dot one wildcard, each run of other
\* characters one literal text.
LabelPattern(sheetRef) ==
    LET n == Trim(sheetRef)
        kind(k) == IF n[k] \in WhiteSpace THEN "ws" ELSE IF n[k] = 46 THEN "dot" ELSE "lit"
        heads == {k \in 1..Len(n) : kind(k) = "dot" \/ k = 1 \/ kind(k - 1) # kind(k)}
        last(k) == LET next == {j \in heads : j > k}
                   IN  IF next = {} THEN Len(n)
                       ELSE (CHOOSE j \in next : \A i \in next : j <= i) - 1
        item(k) == IF kind(k) = "ws" THEN RStar(RSpace)[1]
                   ELSE IF kind(k) = "dot" THEN RAny[1]
                   ELSE RStr(SubSeq(n, k, last(k)))[1]
    IN  [j \in 1..Cardinality(heads) |-> item(KthOf(heads, j))]

\* Whether the label's text is the source of a valid pattern: new RegExp
\* throws a SyntaxError when the spliced text leaves a parenthesis unbalanced
\* or a class bracket unclosed.
ParensBalanced(str) ==
    LET opens(k) == Cardinality({j \in 1..k : str[j] = 40})
        closes(k) == Cardinality({j \in 1..k : str[j] = 41})
    IN  /\ \A k \in 1..Len(str) : opens(k) >= closes(k)
        /\ opens(Len(str)) = closes(Len(str))

LabelCompiles(sheetRef) ==
    /\ ParensBalanced(sheetRef)
    /\ \A k \in 1..Len(sheetRef) :
          sheetRef[k] = 91 => \E j \in (k + 1)..Len(sheetRef) : sheetRef[j] = 93

\* [^.;]
NotDotSemi == RNot({46, 59})

\* 1. (?:на\s+)?(?:лист[еа]?)\s+L\s*[:–—-]\s*([^.;]{10,150})
Pattern1(sheetRef) ==
    OptNa \o ListEA \o RPlus(RSpace) \o LabelPattern(sheetRef) \o RStar(RSpace)
    \o RSet({58} \cup Dashes) \o RStar(RSpace) \o RGrp(1, RRep(NotDotSemi, 10, 150))

\* 2. (?:лист[еа]?)\s+L[,\s]+(?:где|на котором|...)\s+([^.;]{10,150})
Pattern2(sheetRef) ==
    ListEA \o RPlus(RSpace) \o LabelPattern(sheetRef) \o RPlus(RSet({44} \cup WhiteSpace))
    \o RAlt([k \in 1..Len(WhereWords) |-> RStr(WhereWords[k])])
    \o RPlus(RSpace) \o RGrp(1, RRep(NotDotSemi, 10, 150))

\* 3. ([^.;(]{15,150})\s*\((?:лист[еа]?)\s+L\)
Pattern3(sheetRef) ==
    RGrp(1, RRep(RNot({46, 59, 40}), 15, 150)) \o RStar(RSpace) \o RStr(<<40>>)
    \o ListEA \o RPlus(RSpace) \o LabelPattern(sheetRef) \o RStr(<<41>>)

\* 4. (?:лист[еа]?)\s+L[,\s]+([^.;]{15,150})[.;]
Pattern4(sheetRef) ==
    ListEA \o RPlus(RSpace) \o LabelPattern(sheetRef) \o RPlus(RSet({44} \cup WhiteSpace))
    \o RGrp(1, RRep(NotDotSemi, 15, 150)) \o RSet({46, 59})

\* 5. ([А-ЯЁа-яё][А-ЯЁа-яё\s\d-]{10,100})\s+(?:на\s+)?(?:лист[еа]?)\s+L
Pattern5(sheetRef) ==
    RGrp(1, RSet(CyrUpper \cup CyrLower)
            \o RRep(RSet(CyrUpper \cup CyrLower \cup WhiteSpace \cup Digits \cup {45}), 10, 100))
    \o RPlus(RSpace) \o OptNa \o ListEA \o RPlus(RSpace) \o LabelPattern(sheetRef)

patterns(sheetRef) ==
    <<Pattern1(sheetRef), Pattern2(sheetRef), Pattern3(sheetRef), Pattern4(sheetRef),
      Pattern5(sheetRef)>>

\* .{0,30}L.{0,80}
contextPattern(sheetRef) == RRep(RAny, 0, 30) \o LabelPattern(sheetRef) \o RRep(RAny, 0, 80)

\* (?:на\s+)?(?:лист[еа]?)\s+L
MentionPattern(sheetRef) == OptNa \o ListEA \o RPlus(RSpace) \o LabelPattern(sheetRef)

\* /^(см\.|см|см\s+лист|лист|страница|стр)/i
TooGeneric ==
    RAlt(<<RStr(<<1089, 1084, 46>>), RStr(<<1089, 1084>>),
           RStr(<<1089, 1084>>) \o RPlus(RSpace) \o RStr(TxtList),
           RStr(TxtList), RStr(<<1089, 1090, 1088, 1072, 1085, 1080, 1094, 1072>>), RStr(<<1089, 1090, 1088>>)>>)

\* [-–—:,;\s()] : what is cleaned off both ends of a description
EdgeJunk == Dashes \cup {58, 44, 59, 40, 41} \cup WhiteSpace

CleanEdges(str) == Trim(StripTrail(StripLead(str, EdgeJunk), EdgeJunk))

\* A faulty variant of significantWords that keeps only words longer than
\* five characters.
significantWordsOver5(words) ==
    FilterIdx(words,
              {k \in 1..Len(words) :
                 Len(words[k]) > 5 /\ toLowerCase(words[k]) \notin StopWords})

\* words.filter(w => w.length > 3 && !/^(и|в|...|при)$/i.test(w))
significantWords(words) ==
    FilterIdx(words,
              {k \in 1..Len(words) :
                 Len(words[k]) > 3 /\ toLowerCase(words[k]) \notin StopWords})

\* searchText.length > 80 ? searchText.substring(0, 77) + '...' : searchText
Cap80(searchText) ==
    IF Len(searchText) > 80 THEN Substring(searchText, 0, 77) \o TxtDots ELSE searchText

\* str.replace(re, '') for a global re: the text outside the matches.
RECURSIVE RemoveMatches(_, _, _)
RemoveMatches(str, ms, from) ==
    IF Len(ms) = 0 THEN Substring(str, from, Len(str))
    ELSE Substring(str, from, ms[1].index) \o RemoveMatches(str, Tail(ms), ms[1].end)

\* The search text one match of a pattern yields, or "" when the match is
\* skipped (the body of the loop over matches, lines 331-361).
CandidateText(solution, match) ==
    LET Checked(description, searchText) ==
            IF Len(description) < 10 THEN <<>>
            ELSE IF Run(TooGeneric, description, 1, NoCaps, TRUE).ok THEN <<>>
            ELSE IF Len(searchText) >= 10 THEN searchText
            ELSE <<>>
        Of(description) ==
            Checked(description,
                    Cap80(Join(Slice0(significantWords(SplitWs(description)), 5), TxtSpace)))
    IN  Of(CleanEdges(Trim(Capture(solution, match, 1))))

\* The first usable search text among the matches ms, or "".
RECURSIVE FirstCandidate(_, _)
FirstCandidate(solution, ms) ==
    LET Or(c) == IF Len(c) > 0 THEN c ELSE FirstCandidate(solution, Tail(ms))
    IN  IF Len(ms) = 0 THEN <<>> ELSE Or(CandidateText(solution, ms[1]))

\* The loop over the five patterns ps (lines 328-364), from pattern k on.
RECURSIVE FromPatterns(_, _, _)
FromPatterns(ps, solution, k) ==
    LET Or(c) == IF Len(c) > 0 THEN c ELSE FromPatterns(ps, solution, k + 1)
    IN  IF k > Len(ps) THEN <<>>
        ELSE Or(FirstCandidate(solution, MatchAll(ps[k], solution, TRUE)))

\* The fallback on the general context of the mention (lines 366-387).
FromContext(sheetRef, solution) ==
    LET Words(context) ==
            significantWords(SplitWs(CleanEdges(Trim(
                RemoveMatches(context, MatchAll(MentionPattern(sheetRef), context, TRUE), 0)))))
        Text(words) ==
            IF Len(words) >= 2 THEN Cap80(Join(Slice0(words, 5), TxtSpace)) ELSE <<>>
        Of(contextMatch) ==
            IF contextMatch.ok THEN Text(Words(Trim(Matched(solution, contextMatch))))
            ELSE <<>>
    IN  Of(ExecFrom(contextPattern(sheetRef), solution, 0, TRUE))

extractSheetSpecificDescription(sheetRef, solution) ==
    LET Or(c) == IF Len(c) > 0 THEN c ELSE FromContext(sheetRef, solution)
    IN  Or(FromPatterns(patterns(sheetRef), solution, 1))

HasPage(references, page) == \E k \in 1..Len(references) : references[k].page = page

\* A faulty variant of sheetRefsOf that splits the field at white space,
\* letting any character into a label.
sheetRefsBySpace(referenceField) == SplitWs(referenceField)

\* The labels of the reference field: referenceField.match(/.../g) || []
sheetRefsOf(referenceField) == MatchTexts(SheetRefRegex, referenceField, FALSE)

\* The entry the reference-field pass pushes for a label (lines 291-295).
FieldReference(sheetRef, pdfPageNum, solution) ==
    LET Entry(sheetSpecificText) ==
            [page |-> pdfPageNum,
             sheetNumber |-> sheetRef,
             description |-> IF Len(sheetSpecificText) > 0 THEN sheetSpecificText
                             ELSE TxtMention \o sheetRef \o TxtInDocs]
    IN  Entry(extractSheetSpecificDescription(sheetRef, solution))

\* (?:лист[е]?|страниц[ае])
ListOrPage ==
    RAlt(<<RStr(TxtList) \o ROpt(RSet({1077})), RStr(TxtStranic) \o RSet({1072, 1077})>>)

\* /(?:на\s+)?(?:лист[е]?|страниц[ае])\s+([\w\d]+(?:[-–—.]\w*)*)\s*[-–—]?\s*
\*  ([^.;]*(?:[.;][^;.]*?(?=(?:лист[е]?|страниц[ае]|[\w\d]+\s*[-–—]|$)))?)/gi
pageRegex ==
    OptNa \o ListOrPage \o RPlus(RSpace) \o RGrp(1, SheetRefRegex) \o RStar(RSpace)
    \o ROpt(RSet(Dashes)) \o RStar(RSpace)
    \o RGrp(2, RStar(NotDotSemi)
               \o ROpt(RSet({46, 59}) \o RLazy(NotDotSemi, 0, Inf)
                       \o RLook(RAlt(<<RStr(TxtList) \o ROpt(RSet({1077})),
                                       RStr(TxtStranic) \o RSet({1072, 1077}),
                                       RPlus(RWord) \o RStar(RSpace) \o RSet(Dashes),
                                       REnd>>))))

\* /[А-ЯЁ][а-яё]+(?:\s+[а-яё]+){0,3}/g
keywordRegex ==
    RSet(CyrUpper) \o RPlus(RSet(CyrLower))
    \o RRep(RPlus(RSpace) \o RPlus(RSet(CyrLower)), 0, 3)

\* description.search(/[.;]/)
SentenceEnd(description) ==
    LET hits == {k \in 1..Len(description) : description[k] \in {46, 59}}
    IN  IF hits = {} THEN -1 ELSE (CHOOSE k \in hits : \A j \in hits : k <= j) - 1

\* The description of one match of pageRegex (lines 408-431).
SolutionDescription(solution, match) ==
    LET d0 == Trim(StripTrail(StripLead(Trim(Capture(solution, match, 2)),
                                        Dashes \cup {58, 44, 59} \cup WhiteSpace),
                              {59, 46, 44}))
        startIndex == match.end
        endIndex == IF startIndex + 100 < Len(solution) THEN startIndex + 100 ELSE Len(solution)
        after == Trim(Substring(solution, startIndex, endIndex))
        sentenceEnd == SentenceEnd(after)
        d1 == IF Len(d0) < 10
              THEN (IF sentenceEnd # -1 THEN Trim(Substring(after, 0, sentenceEnd)) ELSE after)
              ELSE d0
    IN  IF Len(d1) > 150 THEN Substring(d1, 0, 147) \o TxtDots ELSE d1

\* The description pushed for one match (lines 436-451).
PushedDescription(solution, match) ==
    LET Better(description, keywords) ==
            IF Len(description) < 20 /\ Len(keywords) > 0
            THEN Join(Slice0(keywords, 3), TxtCommaSpace)
            ELSE description
        Or(betterDescription) ==
            IF Len(betterDescription) > 0 THEN betterDescription
            ELSE Trim(Substring(solution, 0, 80))
    IN  Or(Better(SolutionDescription(solution, match),
                  MatchTexts(keywordRegex,
                             Substring(solution,
                                       IF match.index - 50 > 0 THEN match.index - 50 ELSE 0,
                                       match.index + 150),
                             FALSE)))

\* The while loop over the matches of pageRegex (lines 407-453).
RECURSIVE SolutionLoop(_, _, _, _)
SolutionLoop(ms, solution, sheetToPdfMapping, references) ==
    LET Added(sheetRef, pdfPageNum) ==
            IF pdfPageNum # 0 /\ ~HasPage(references, pdfPageNum)
            THEN Append(references,
                        [page |-> pdfPageNum,
                         sheetNumber |-> sheetRef,
                         description |-> PushedDescription(solution, ms[1])])
            ELSE references
        Resolved(sheetRef) ==
            Added(sheetRef, resolveSheetToPdfPage(sheetRef, sheetToPdfMapping))
    IN  IF Len(ms) = 0 THEN references
        ELSE SolutionLoop(Tail(ms), solution, sheetToPdfMapping,
                          Resolved(Trim(Capture(solution, ms[1], 1))))

extractReferencesFromSolution(solution, sheetToPdfMapping) ==
    SolutionLoop(MatchAll(pageRegex, solution, TRUE), solution, sheetToPdfMapping, <<>>)

\* /\b\d{1,3}\b/g
simpleNumberRegex == RBnd \o RRep(RDigit, 1, 3) \o RBnd

\* The forEach over the plain numbers of the reference field (lines 479-488).
RECURSIVE NumbersLoop(_, _, _)
NumbersLoop(simpleNumbers, solution, references) ==
    IF Len(simpleNumbers) = 0 THEN references
    ELSE LET numStr == simpleNumbers[1]
             pageNum == parseInt(numStr).val
         IN  NumbersLoop(Tail(simpleNumbers), solution,
                IF pageNum > 0 /\ pageNum < 500 /\ ~HasPage(references, pageNum)
                THEN Append(references,
                            [page |-> pageNum,
                             sheetNumber |-> numStr,
                             description |-> Trim(Substring(solution, 0, 100)) \o TxtDots])
                ELSE references)

\* A faulty variant of SimpleNumberReferences without the last resort.
NoSimpleNumbers(referenceField, solution, references) == references

\* The last-resort search for plain numbers in the reference field (lines
\* 475-490); referenceField is a string here.
SimpleNumberReferences(referenceField, solution, references) ==
    IF Len(references) = 0 /\ Len(referenceField) > 0 /\ referenceField # TxtDash
    THEN NumbersLoop(MatchTexts(simpleNumberRegex, referenceField, FALSE), solution,
                     references)
    ELSE references

\* A faulty variant of uniqueRefs that keeps the last entry of a page.
uniqueRefsLast(references) ==
    FilterIdx(references,
              {k \in 1..Len(references) :
                 \A j \in (k + 1)..Len(references) : references[j].page # references[k].page})

\* references.filter((ref, index, self) =>
\*     index === self.findIndex(r => r.page === ref.page))
uniqueRefs(references) ==
    FilterIdx(references,
              {k \in 1..Len(references) :
                 \A j \in 1..(k - 1) : references[j].page # references[k].page})

\* (a, b) => a.page - b.page is positive: NaN, the difference with a page
\* that is no number, counts as 0.
ComesAfter(a, b) == IsNumber(a.page) /\ IsNumber(b.page) /\ a.page > b.page

\* The stable ascending order of Array.prototype.sort under that comparison.
RECURSIVE InsertByPage(_, _)
InsertByPage(sorted, ref) ==
    IF Len(sorted) = 0 THEN <<ref>>
    ELSE IF ~ComesAfter(sorted[Len(sorted)], ref) THEN Append(sorted, ref)
    ELSE Append(InsertByPage(SubSeq(sorted, 1, Len(sorted) - 1), ref), sorted[Len(sorted)])

RECURSIVE SortByPage(_)
SortByPage(refs) ==
    IF Len(refs) = 0 THEN <<>>
    ELSE InsertByPage(SortByPage(SubSeq(refs, 1, Len(refs) - 1)), refs[Len(refs)])

\* The rearrangements of a list.
Rearrangements(refs) ==
    {[k \in 1..Len(refs) |-> refs[f[k]]] :
        f \in {g \in [1..Len(refs) -> 1..Len(refs)] :
                 \A j, k \in 1..Len(refs) : g[j] = g[k] => j = k}}

\* The comparison is a consistent comparator for the entries: none of them
\* is equal to two entries that differ (pages that are numbers differ after
\* uniqueRefs; a page that is no number is equal to every entry).
ConsistentComparator(refs) ==
    \/ \A k \in 1..Len(refs) : IsNumber(refs[k].page)
    \/ Cardinality({k \in 1..Len(refs) : IsNumber(refs[k].page)}) <= 1

\* uniqueRefs.sort((a, b) => a.page - b.page): the stable ascending order
\* under a consistent comparator; otherwise the order is left to the
\* implementation, and any may result.
SortOutcomes(refs) ==
    IF ConsistentComparator(refs) THEN {SortByPage(refs)} ELSE Rearrangements(refs)

\* references.push(...items)
Push(references, items) == references \o items

\* ""
SolEmpty ==
    <<>>

\* "Shown on sheet AR-03: external wall insulation detail."
SolScenarioA ==
    <<83, 104, 111, 119, 110, 32, 111, 110, 32, 115, 104, 101, 101, 116, 32, 65, 82, 45, 48,
      51, 58, 32, 101, 120, 116, 101, 114, 110, 97, 108, 32, 119, 97, 108, 108, 32, 105,
      110, 115, 117, 108, 97, 116, 105, 111, 110, 32, 100, 101, 116, 97, 105, 108, 46>>

\* "Показано на листе AR-03: external wall insulation detail."
SolScenarioARu ==
    <<1055, 1086, 1082, 1072, 1079, 1072, 1085, 1086, 32, 1085, 1072, 32, 1083, 1080, 1089,
      1090, 1077, 32, 65, 82, 45, 48, 51, 58, 32, 101, 120, 116, 101, 114, 110, 97, 108,
      32, 119, 97, 108, 108, 32, 105, 110, 115, 117, 108, 97, 116, 105, 111, 110, 32,
      100, 101, 116, 97, 105, 108, 46>>

\* "На листе 5 показан узел примыкания кровли."
SolSheet5 ==
    <<1053, 1072, 32, 1083, 1080, 1089, 1090, 1077, 32, 53, 32, 1087, 1086, 1082, 1072,
      1079, 1072, 1085, 32, 1091, 1079, 1077, 1083, 32, 1087, 1088, 1080, 1084, 1099,
      1082, 1072, 1085, 1080, 1103, 32, 1082, 1088, 1086, 1074, 1083, 1080, 46>>

\* "Показано на листе 5: узел примыкания кровли к парапету."
SolSheet5Colon ==
    <<1055, 1086, 1082, 1072, 1079, 1072, 1085, 1086, 32, 1085, 1072, 32, 1083, 1080, 1089,
      1090, 1077, 32, 53, 58, 32, 1091, 1079, 1077, 1083, 32, 1087, 1088, 1080, 1084,
      1099, 1082, 1072, 1085, 1080, 1103, 32, 1082, 1088, 1086, 1074, 1083, 1080, 32,
      1082, 32, 1087, 1072, 1088, 1072, 1087, 1077, 1090, 1091, 46>>

\* "No citation here"
SolNoCitation ==
    <<78, 111, 32, 99, 105, 116, 97, 116, 105, 111, 110, 32, 104, 101, 114, 101>>

\* "на странице 26 показан Узел примыкания кровли. Далее страница 3 - Схема"
SolTwoPages ==
    <<1085, 1072, 32, 1089, 1090, 1088, 1072, 1085, 1080, 1094, 1077, 32, 50, 54, 32, 1087,
      1086, 1082, 1072, 1079, 1072, 1085, 32, 1059, 1079, 1077, 1083, 32, 1087, 1088,
      1080, 1084, 1099, 1082, 1072, 1085, 1080, 1103, 32, 1082, 1088, 1086, 1074, 1083,
      1080, 46, 32, 1044, 1072, 1083, 1077, 1077, 32, 1089, 1090, 1088, 1072, 1085,
      1080, 1094, 1072, 32, 51, 32, 45, 32, 1057, 1093, 1077, 1084, 1072>>

\* "\u0000(\uFFFF[*"
SolGarbage ==
    <<0, 40, 65535, 91, 42>>

\* ""
RefEmpty ==
    <<>>

\* "-"
RefDash ==
    <<45>>

\* " "
RefBlank ==
    <<32>>

\* "5"
Ref5 ==
    <<53>>

\* "0"
Ref0 ==
    <<48>>

\* "499"
Ref499 ==
    <<52, 57, 57>>

\* "500"
Ref500 ==
    <<53, 48, 48>>

\* "1000"
Ref1000 ==
    <<49, 48, 48, 48>>

\* "007"
Ref007 ==
    <<48, 48, 55>>

\* "ZZ-99"
RefZZ99 ==
    <<90, 90, 45, 57, 57>>

\* "ZZ-AB"
RefZZAB ==
    <<90, 90, 45, 65, 66>>

\* "ZZ99"
RefZZ99Joined ==
    <<90, 90, 57, 57>>

\* "ZZ-0"
RefZZ0 ==
    <<90, 90, 45, 48>>

\* "AR-03"
RefAR03 ==
    <<65, 82, 45, 48, 51>>

\* "5, 3, AR-03"
RefList ==
    <<53, 44, 32, 51, 44, 32, 65, 82, 45, 48, 51>>

\* "###"
RefHashes ==
    <<35, 35, 35>>

\* "5("
RefParen ==
    <<53, 40>>

\* "АР-01"
RefCyrillic ==
    <<1040, 1056, 45, 48, 49>>

\* "600.5"
RefDecimal ==
    <<54, 48, 48, 46, 53>>

(***************************************************************************)
(* Inputs of extractPageReferences: requirement texts, reference fields    *)
(* and sheet-to-page mappings as RequirementList passes them               *)
(* (src/unnamed/part_010, line 58).                                         *)
(***************************************************************************)

\* "5 constructor 3"
RefInherited == <<53, 32, 99, 111, 110, 115, 116, 114, 117, 99, 116, 111, 114, 32, 51>>

\* Length of the repeated part of the long inputs.
LongLabelLen == 110

LongWords == 50

\* "5-aaa...a": a label longer than any locator cap that parses as page 5
RefLongLabel == <<53, 45>> \o [k \in 1..LongLabelLen |-> 97]

\* "на листе 7 абв абв ... абв ": a citation followed by a long text without
\* a sentence end
SolLong ==
    TxtNa \o TxtSpace \o TxtList \o <<1077, 32, 55, 32>>
    \o [k \in 1..(4 * LongWords) |-> <<1072, 1073, 1074, 32>>[((k - 1) % 4) + 1]]

Solutions ==
    {SolEmpty, SolScenarioA, SolScenarioARu, SolSheet5, SolSheet5Colon, SolNoCitation,
     SolTwoPages, SolGarbage, SolLong}

ReferenceFields ==
    {Undefined, RefEmpty, RefDash, RefBlank, Ref5, Ref0, Ref499, Ref500, Ref1000, Ref007,
     RefZZ99, RefZZAB, RefZZ99Joined, RefZZ0, RefAR03, RefList, RefHashes, RefParen,
     RefCyrillic, RefDecimal, RefLongLabel, RefInherited}

\* {}, {"AR-03": 12, "5": 12}, {"AR-03": 3}
Mappings == {<<>>, (RefAR03 :> 12) @@ (Ref5 :> 12), (RefAR03 :> 3)}

(***************************************************************************)
(* extractPageReferences as a state machine                                 *)
(***************************************************************************)

VARIABLES
    solution, referenceField, sheetToPdfMapping,  \* the arguments
    pc,            \* the position in extractPageReferences
    sheetRefs,     \* the labels of the reference field
    index,         \* how many of them forEach has visited
    sheetRef,      \* the label of the last iteration
    pdfPageNum,    \* the page it resolved to (0: null)
    fieldRefs,     \* the references array of extractReferencesFromField
    references,    \* the references array of extractPageReferences
    result,        \* the returned list
    sortOrders,    \* the orders the engine's sort gave to arrays that have none
    history        \* the calls of extractPageReferences that have ended

refVars ==
    <<solution, referenceField, sheetToPdfMapping, pc, sheetRefs, index, sheetRef,
      pdfPageNum, fieldRefs, references, result,
      sortOrders, history>>

VARIABLES
    pdfFile,          \* App: the project document (0: null)
    selectedPage,     \* App: the page of the selected reference (0: null)
    highlightText,    \* App: the locator of the selected reference
    pageChangeKey,    \* App: the key of PdfViewer
    instance,         \* the number of PdfViewer instances mounted so far
    numPages,         \* PdfViewer: the page count (0: null)
    currentPage,      \* PdfViewer: the page shown in the toolbar
    searchText,       \* usePdfSearch: the active search text
    lastHighlightRef, \* usePdfSearch: the last locator taken over
    docLoaded,        \* Document has loaded the file and rendered the pages
    textLayers,       \* the pages whose text layer is rendered
    marks,            \* the spans <<page, span>> of class highlighted-text
    view,             \* the target of the last scrollIntoView
    timers,           \* the pending setTimeout callbacks
    query,            \* the number of targets set or cleared so far
    lookups,          \* the page lookups tryScroll made for the last target
    afterFailed       \* the last target was set after a failed, exhausted one

viewVars ==
    <<pdfFile, selectedPage, highlightText, pageChangeKey, instance, numPages,
      currentPage, searchText, lastHighlightRef, docLoaded, textLayers, marks, view,
      timers, query, lookups, afterFailed>>

\* The state of Header (Header.tsx, lines 36-41) and of the status
\* requests it has sent.
VARIABLES
    loading,                \* Header: a request of step 1 or 2 is running
    error,                  \* Header: the error shown
    pollingErrors,          \* Header: the state pollingErrors
    statusPollingRef,       \* the interval: the pollingErrors its callback sees
    statusRequests,         \* the status requests without a response so far
    extractedRequirements,  \* App: requirements wait in the editor
    confirmedRequirements,  \* App: requirements are confirmed (step 2)
    failures,               \* the failed status requests since the last success
    analysisProgress,       \* Header: the state analysisProgress
    realTimeStatus,         \* Header: the state realTimeStatus
    intervals,              \* the intervals set and not cleared
    endpoint                \* the endpoint the interval of the reference asks

statusVars == <<analysisProgress, realTimeStatus, intervals, endpoint>>

pollVars ==
    <<loading, error, pollingErrors, statusPollingRef, statusRequests,
      extractedRequirements, confirmedRequirements, failures, statusVars>>

\* The state of useLocalStorage (useLocalStorage.ts, line 20) as App uses
\* it (part_004, lines 45-58), and the entry of its key in localStorage.
\* An application state is a number: 0 is the content of initialAppState.
VARIABLES
    mounted,       \* the page is loaded and App is mounted
    item,          \* localStorage: the entry of the key
    storedValue,   \* the state storedValue, and whether it is initialValue itself
    restores,      \* the calls of onRestore so far
    loads,         \* the page loads so far
    cleared,       \* clearStorage was the last change of storedValue
    notification   \* useNotification: the notification shown

\* The reference of useNotification (part_014, line 53) and the timers of
\* the page that setTimeout has set and that have neither fired nor been
\* cleared.
VARIABLES
    timeoutRef,    \* timeoutRef.current: the number of a timer, or NoTimeout
    timeouts,      \* the pending timers: number and seconds left
    shownBy,       \* the timer set by the call that showed the notification
    hiddenBy       \* what has hidden the notification shown last

noteVars == <<timeoutRef, timeouts, shownBy, hiddenBy>>

storeVars ==
    <<mounted, item, storedValue, restores, loads, cleared, notification,
      noteVars>>

\* The persistent state of App (part_004, lines 14-30 and 45), the editor
\* flag (line 35), and the request of Header that has no response so far.
VARIABLES
    appState,               \* App: storedValue of useLocalStorage as a record
    showRequirementEditor,  \* App: the state showRequirementEditor
    request,                \* the POST without a response, and the appState
                            \* of the render whose handlers it will call
    analyses,               \* the analyses started so far
    savedState              \* localStorage: the application state last saved

flowVars == <<appState, showRequirementEditor, request, analyses, savedState>>

uiVars == <<pollVars, storeVars, flowVars>>

vars == <<refVars, viewVars, uiVars>>

\* statusPollingRef.current is null.
NoInterval == 0 - 1

\* Header after construction: useState(false), useState(null),
\* useState(0), useRef(null), and the polling effect that ran with loading
\* false.
InitHeader ==
    /\ loading = FALSE
    /\ error = "none"
    /\ pollingErrors = 0
    /\ statusPollingRef = NoInterval
    /\ statusRequests = <<>>
    /\ extractedRequirements = FALSE
    /\ confirmedRequirements = FALSE
    /\ failures = 0
    /\ analysisProgress = 0
    /\ realTimeStatus = "null"
    /\ intervals = 0
    /\ endpoint = "none"

\* localStorage has no entry of the key.
NoItem == 0 - 1

\* The entry of the key is no JSON text.
Corrupt == 0 - 2

\* The application states that are not the initial one: 1 requirements
\* confirmed, 2 analysis completed (requirements with results present).
MaxState == 2

\* initialValue as the first render takes it (useLocalStorage.ts, line 20).
InitialValue == [val |-> 0, initial |-> TRUE]

\* timeoutRef.current is null.
NoTimeout == 0

\* The notification shown last is still shown, or none was shown.
NotHidden == [kind |-> "none", timer |-> NoTimeout, of |-> NoTimeout]

\* useNotification after construction (part_014, lines 52-53).
InitNotification ==
    /\ notification = "none"
    /\ timeoutRef = NoTimeout
    /\ timeouts = {}
    /\ shownBy = NoTimeout
    /\ hiddenBy = NotHidden

\* Before the page is loaded: localStorage holds what an earlier visit
\* left.
InitStorage ==
    /\ mounted = FALSE
    /\ item \in {NoItem, Corrupt} \cup 0..MaxState
    /\ storedValue = InitialValue
    /\ restores = 0
    /\ loads = 0
    /\ cleared = FALSE
    /\ InitNotification

\* part_004, lines 23-30.  The confirmed list is 0 (null) or 1; the
\* requirements, the summary and the mapping are 0 (empty) or the number
\* of the analysis that produced them.
initialAppState ==
    [currentStep |-> 1, confirmedRequirements |-> 0, requirements |-> 0,
     summary |-> 0, sheetToPdfMapping |-> 0, analysisCompleted |-> FALSE]

\* No POST of Header is waiting for its response.
NoRequest == [kind |-> "none", n |-> 0, appState |-> initialAppState]

\* App after construction (part_004, lines 34-35 and 45-47), the save
\* effect having written the initial state.
InitFlow ==
    /\ appState = initialAppState
    /\ showRequirementEditor = FALSE
    /\ request = NoRequest
    /\ analyses = 0
    /\ savedState = initialAppState

InitUi ==
    /\ InitHeader
    /\ InitFlow
    /\ mounted = FALSE
    /\ item = NoItem
    /\ storedValue = InitialValue
    /\ restores = 0
    /\ loads = 0
    /\ cleared = FALSE
    /\ InitNotification

\* The view before any scrollIntoView.
NoView == [kind |-> "none", page |-> 0, span |-> 0]

\* The state of App and of the right panel after construction, with the
\* results of an analysis present and no document loaded (part_004, lines
\* 36-39 and 175-182).
InitApp ==
    /\ pdfFile = 0
    /\ selectedPage = 0
    /\ highlightText = <<>>
    /\ pageChangeKey = 0
    /\ instance = 0
    /\ numPages = 0
    /\ currentPage = 1
    /\ searchText = <<>>
    /\ lastHighlightRef = <<>>
    /\ docLoaded = FALSE
    /\ textLayers = {}
    /\ marks = {}
    /\ view = NoView
    /\ timers = {}
    /\ query = 0
    /\ lookups = 0
    /\ afterFailed = FALSE

\* extractPageReferences has been called with arguments from the input sets.
InitReferences ==
    /\ solution \in Solutions
    /\ referenceField \in ReferenceFields
    /\ sheetToPdfMapping \in Mappings
    /\ pc = "call"
    /\ sheetRefs = <<>>
    /\ index = 0
    /\ sheetRef = <<>>
    /\ pdfPageNum = 0
    /\ fieldRefs = <<>>
    /\ references = <<>>
    /\ result = <<>>
    /\ sortOrders = {}
    /\ history = <<>>
    /\ InitUi
    /\ InitApp

\* Lines 469 and 275-282: the call of extractReferencesFromField with
\* referenceField || '', up to the match of the labels.
CallExtractReferencesFromField ==
    /\ pc = "call"
    /\ LET field == IF referenceField = Undefined THEN <<>> ELSE referenceField
       IN  IF Len(field) = 0 \/ Len(Trim(field)) = 0 \/ field = TxtDash
           THEN /\ pc' = "solution"
                /\ references' = Push(references, <<>>)
                /\ UNCHANGED sheetRefs
           ELSE /\ pc' = "forEach"
                /\ sheetRefs' = sheetRefsOf(field)
                /\ UNCHANGED references
    /\ UNCHANGED <<sortOrders, history, solution, referenceField, sheetToPdfMapping, index, sheetRef,
                   pdfPageNum, fieldRefs, result>>
    /\ UNCHANGED <<viewVars, uiVars>>

\* Lines 284-297: one iteration of sheetRefs.forEach.  Building the patterns
\* of extractSheetSpecificDescription from a label that is no valid pattern
\* source throws, and the exception leaves extractPageReferences.
ForEachSheetRef ==
    /\ pc = "forEach"
    /\ index < Len(sheetRefs)
    /\ index' = index + 1
    /\ sheetRef' = sheetRefs[index + 1]
    /\ pdfPageNum' = resolveSheetToPdfPage(sheetRefs[index + 1], sheetToPdfMapping)
    /\ IF pdfPageNum' # 0 /\ ~HasPage(fieldRefs, pdfPageNum')
       THEN IF LabelCompiles(sheetRef')
            THEN /\ fieldRefs' = Append(fieldRefs,
                                        FieldReference(sheetRef', pdfPageNum', solution))
                 /\ pc' = "forEach"
            ELSE /\ pc' = "threw"
                 /\ UNCHANGED fieldRefs
       ELSE UNCHANGED <<fieldRefs, pc>>
    /\ UNCHANGED <<sortOrders, history, solution, referenceField, sheetToPdfMapping, sheetRefs, references,
                   result>>
    /\ UNCHANGED <<viewVars, uiVars>>

\* Lines 299 and 469: extractReferencesFromField returns and its
\* references are pushed.
ReturnFromField ==
    /\ pc = "forEach"
    /\ index = Len(sheetRefs)
    /\ references' = Push(references, fieldRefs)
    /\ pc' = "solution"
    /\ UNCHANGED <<sortOrders, history, solution, referenceField, sheetToPdfMapping, sheetRefs, index,
                   sheetRef, pdfPageNum, fieldRefs, result>>
    /\ UNCHANGED <<viewVars, uiVars>>

\* Line 472: the references of extractReferencesFromSolution are pushed.
PushFromSolution ==
    /\ pc = "solution"
    /\ references' = Push(references,
                          extractReferencesFromSolution(solution, sheetToPdfMapping))
    /\ pc' = "numbers"
    /\ UNCHANGED <<sortOrders, history, solution, referenceField, sheetToPdfMapping, sheetRefs, index,
                   sheetRef, pdfPageNum, fieldRefs, result>>
    /\ UNCHANGED <<viewVars, uiVars>>

\* Lines 475-490: the search for plain numbers when nothing was found.
SimpleNumbers ==
    /\ pc = "numbers"
    /\ references' = IF referenceField = Undefined THEN references
                     ELSE SimpleNumberReferences(referenceField, solution, references)
    /\ pc' = "unique"
    /\ UNCHANGED <<sortOrders, history, solution, referenceField, sheetToPdfMapping, sheetRefs, index,
                   sheetRef, pdfPageNum, fieldRefs, result>>
    /\ UNCHANGED <<viewVars, uiVars>>

\* Line 497 in one engine: the order of an array that has no consistent
\* order is the engine's choice, and the engine, running the same algorithm
\* on the same array, makes the same choice every time.
EngineSort(refs) ==
    IF \E o \in sortOrders : o[1] = refs
    THEN {o[2] : o \in {s \in sortOrders : s[1] = refs}}
    ELSE SortOutcomes(refs)

\* Lines 493-497: duplicates are removed and the sorted list is returned.
ReturnUniqueRefs ==
    /\ pc = "unique"
    /\ result' \in EngineSort(uniqueRefs(references))
    /\ sortOrders' = IF ConsistentComparator(uniqueRefs(references)) THEN sortOrders
                     ELSE sortOrders \cup {<<uniqueRefs(references), result'>>}
    /\ pc' = "done"
    /\ UNCHANGED <<history, solution, referenceField, sheetToPdfMapping, sheetRefs, index,
                   sheetRef, pdfPageNum, fieldRefs, references>>
    /\ UNCHANGED <<viewVars, uiVars>>

NextReferences ==
    \/ CallExtractReferencesFromField
    \/ ForEachSheetRef
    \/ ReturnFromField
    \/ PushFromSolution
    \/ SimpleNumbers
    \/ ReturnUniqueRefs

SpecReferences == InitReferences /\ [][NextReferences]_vars

\* The number of calls of extractPageReferences in a run of several calls.
MaxCalls == 3

\* Arguments of calls made between two calls with the same arguments.
BetweenCalls ==
    {<<SolTwoPages, RefList, <<>>>>, <<SolNoCitation, RefInherited, <<>>>>}

\* The arguments of the calls that follow the first one: the second call
\* repeats the first or is another call, the calls after it repeat the
\* first.
LaterCalls ==
    IF history = <<>>
    THEN {<<solution, referenceField, sheetToPdfMapping>>} \cup BetweenCalls
    ELSE {<<history[1].solution, history[1].referenceField,
            history[1].sheetToPdfMapping>>}

\* The call that has ended, as history keeps it.
EndedCall ==
    [solution |-> solution, referenceField |-> referenceField,
     sheetToPdfMapping |-> sheetToPdfMapping, threw |-> (pc = "threw"),
     result |-> result]

\* A call of an extractPageReferences whose references array is declared
\* outside the function and so keeps the entries of the calls before.
CallKeepingReferences(sol, ref, map) ==
    /\ pc \in {"done", "threw"}
    /\ Len(history) < MaxCalls - 1
    /\ history' = Append(history, EndedCall)
    /\ solution' = sol
    /\ referenceField' = ref
    /\ sheetToPdfMapping' = map
    /\ pc' = "call"
    /\ sheetRefs' = <<>>
    /\ index' = 0
    /\ sheetRef' = <<>>
    /\ pdfPageNum' = 0
    /\ fieldRefs' = <<>>
    /\ result' = <<>>
    /\ UNCHANGED <<references, sortOrders>>
    /\ UNCHANGED <<viewVars, uiVars>>

\* Lines 461-466: another call of extractPageReferences, after the one
\* before has returned or thrown.  Its references array and the regular
\* expressions of the functions it calls are created by the call.
CallExtractPageReferences(sol, ref, map) ==
    /\ pc \in {"done", "threw"}
    /\ Len(history) < MaxCalls - 1
    /\ history' = Append(history, EndedCall)
    /\ solution' = sol
    /\ referenceField' = ref
    /\ sheetToPdfMapping' = map
    /\ pc' = "call"
    /\ sheetRefs' = <<>>
    /\ index' = 0
    /\ sheetRef' = <<>>
    /\ pdfPageNum' = 0
    /\ fieldRefs' = <<>>
    /\ references' = <<>>
    /\ result' = <<>>
    /\ UNCHANGED sortOrders
    /\ UNCHANGED <<viewVars, uiVars>>

NextRepeatedCalls ==
    \/ NextReferences
    \/ \E c \in LaterCalls : CallExtractPageReferences(c[1], c[2], c[3])

SpecRepeatedCalls == InitReferences /\ [][NextRepeatedCalls]_vars

(***************************************************************************)
(* App and PdfViewer as a state machine                                     *)
(*                                                                         *)
(* The results of an analysis are on display, so that the right panel      *)
(* shows EmptyState while pdfFile is null and PdfViewer otherwise.  Time   *)
(* advances in ticks of 50 ms.  A callback given to setTimeout is a record *)
(* of timers: its kind ("first": the call of tryScroll after 50 ms,        *)
(* "retry": a later call after 200 ms, "highlight": the callback after     *)
(* 500 ms), the PdfViewer instance that created it, the target it was      *)
(* created for (q), the page and search text of its closure, the attempts  *)
(* made by its chain and the ticks left.                                   *)
(***************************************************************************)

\* const maxAttempts = 10
maxAttempts == 10

\* setTimeout(tryScroll, 50), setTimeout(tryScroll, 200) and
\* setTimeout(..., 500) in ticks.
FirstDelay == 1
RetryDelay == 4
HighlightDelay == 10

\* The documents a user loads have up to MaxFile distinct contents, the
\* references point to pages up to MaxPage, and up to MaxQueries targets are
\* set or cleared.
MaxFile == 2
MaxPage == 2
MaxQueries == 3

\* "External wall insulation detail"
SpanWall == <<69, 120, 116, 101, 114, 110, 97, 108, 32, 119, 97, 108, 108, 32, 105, 110, 115, 117, 108, 97, 116, 105, 111, 110, 32, 100, 101, 116, 97, 105, 108>>

\* "Roof plan"
SpanRoof == <<82, 111, 111, 102, 32, 112, 108, 97, 110>>

\* "Insulation of wall"
SpanShuffled == <<73, 110, 115, 117, 108, 97, 116, 105, 111, 110, 32, 111, 102, 32, 119, 97, 108, 108>>

\* "План кровли"
SpanPlan == <<1055, 1083, 1072, 1085, 32, 1082, 1088, 1086, 1074, 1083, 1080>>

\* "external wall insulation"
LocExact == <<101, 120, 116, 101, 114, 110, 97, 108, 32, 119, 97, 108, 108, 32, 105, 110, 115, 117, 108, 97, 116, 105, 111, 110>>

\* "insulation detail external"
LocTokens == <<105, 110, 115, 117, 108, 97, 116, 105, 111, 110, 32, 100, 101, 116, 97, 105, 108, 32, 101, 120, 116, 101, 114, 110, 97, 108>>

\* "план для кровли или стен"
LocStop == <<1087, 1083, 1072, 1085, 32, 1076, 1083, 1103, 32, 1082, 1088, 1086, 1074, 1083, 1080, 32, 1080, 1083, 1080, 32, 1089, 1090, 1077, 1085>>

\* The locators a reference carries: none, one that is a substring of a span,
\* one with the words of a span in another order, and one with the words
\* "для" and "или" among words of a span.
Locators == {<<>>, LocExact, LocTokens, LocStop}

\* The page count of a document: document f has f pages.
NumPagesOf(file) == file

\* The text spans of the text layer of a page of a document.
SpansOf(file, page) ==
    IF page = NumPagesOf(file) THEN <<SpanWall, SpanRoof, SpanShuffled>>
    ELSE <<SpanRoof, SpanPlan>>

\* viewerRef.current of the instance that created a callback is set: the
\* instance is mounted and renders the document container.
ViewerRefSet(inst) == pdfFile # 0 /\ inst = instance

\* viewerRef.current.querySelector(`[data-page-number="${page}"]`) finds an
\* element.
PageElement(page) == docLoaded /\ page \in 1..numPages

\* return () => clearTimeout(t), for the callback of the last run of the
\* scroll effect of the mounted instance.
ClearTimeoutT(ts) == {t \in ts : ~(t.inst = instance /\ t.kind = "first")}

\* return () => clearTimeout(timer), for the highlight callback of the
\* mounted instance.
ClearTimeoutTimer(ts) == {t \in ts : ~(t.inst = instance /\ t.kind = "highlight")}

\* const t = setTimeout(tryScroll, 50) with attempts = 0.
FirstTimer(inst, q, page) ==
    [kind |-> "first", inst |-> inst, q |-> q, page |-> page, text |-> <<>>,
     attempts |-> 0, delay |-> FirstDelay]

\* highlightTextOnPage past its early returns: the callback it schedules, if
\* the search text is not blank.
HighlightTimers(inst, q, page, text) ==
    IF text = <<>> \/ page = 0 \/ Len(Trim(text)) = 0
    THEN {}
    ELSE {[kind |-> "highlight", inst |-> inst, q |-> q, page |-> page, text |-> text,
           attempts |-> 0, delay |-> HighlightDelay]}

\* Tokens as the extractor takes its significant words: longer than 3
\* characters and no stop words.
searchTokensSignificant(searchLower) ==
    FilterIdx(SplitWs(searchLower),
              {k \in 1..Len(SplitWs(searchLower)) :
                  /\ Len(SplitWs(searchLower)[k]) > 3
                  /\ SplitWs(searchLower)[k] \notin StopWords})

\* searchLower.split(/\s+/).filter(t => t.length > 2)
searchTokens(searchLower) ==
    FilterIdx(SplitWs(searchLower),
              {k \in 1..Len(SplitWs(searchLower)) : Len(SplitWs(searchLower)[k]) > 2})

\* An exact tier that compares the text of the spans as it is written.
ExactSpansCaseSensitive(spans, searchLower) ==
    {i \in 1..Len(spans) : Includes(spans[i], searchLower)}

\* The spans whose lower-cased text includes the lower-cased, trimmed search
\* text.
ExactSpans(spans, searchLower) ==
    {i \in 1..Len(spans) : Includes(toLowerCase(spans[i]), searchLower)}

\* Math.floor(n * 0.6)
Floor60(n) == (6 * n) \div 10

\* Math.ceil(n * 0.6)
Ceil60(n) == (6 * n + 9) \div 10

\* The spans that include at least 60% of the tokens.
TokenSpans(spans, tokens) ==
    {i \in 1..Len(spans) :
        Cardinality({k \in 1..Len(tokens) : Includes(toLowerCase(spans[i]), tokens[k])})
            >= Ceil60(Len(tokens))}

\* foundElements of the highlight callback: the spans of the exact tier, or
\* of the token tier when the exact tier found none and there are tokens.
foundElements(spans, text) ==
    LET Tiers(searchLower) ==
            IF ExactSpans(spans, searchLower) # {}
            THEN ExactSpans(spans, searchLower)
            ELSE IF Len(searchTokens(searchLower)) > 0
                 THEN TokenSpans(spans, searchTokens(searchLower))
                 ELSE {}
    IN  Tiers(Trim(toLowerCase(text)))

\* The least element of a set of numbers.
Least(S) == CHOOSE n \in S : \A m \in S : n <= m

\* The page of the selected reference never appears among the rendered
\* pages: the loaded document has fewer pages.
PageNeverRendered == pdfFile # 0 /\ selectedPage > NumPagesOf(pdfFile)

\* No callback of the mounted PdfViewer is pending.
Quiescent == \A t \in timers : t.inst # instance

\* The selected reference failed and its retry budget is used up: its page
\* never appeared, every lookup of the budget was made and no callback of
\* the mounted instance is pending.
FailedQueryExhausted ==
    /\ selectedPage # 0
    /\ PageNeverRendered
    /\ lookups >= 1 + maxAttempts
    /\ Quiescent

\* handleRequirementSelect for a PdfViewer without the key property: the
\* mounted instance stays, with the document it has loaded and the marks
\* it holds, and only its effects run again.
selectWithoutRemount(page, textToHighlight) ==
    /\ query < MaxQueries
    /\ selectedPage' = page
    /\ highlightText' = textToHighlight
    /\ pageChangeKey' = pageChangeKey + 1
    /\ query' = query + 1
    /\ lookups' = 0
    /\ afterFailed' = FailedQueryExhausted
    /\ UNCHANGED pdfFile
    /\ IF pdfFile = 0
       THEN UNCHANGED <<instance, numPages, currentPage, searchText, lastHighlightRef,
                        docLoaded, textLayers, marks, view, timers>>
       ELSE /\ searchText' = textToHighlight
            /\ lastHighlightRef' = textToHighlight
            /\ marks' = {}
            /\ timers' = ClearTimeoutTimer(ClearTimeoutT(timers))
                           \cup {FirstTimer(instance, query + 1, page)}
                           \cup HighlightTimers(instance, query + 1, page,
                                                textToHighlight)
            /\ UNCHANGED <<instance, numPages, currentPage, docLoaded, textLayers,
                           view>>
    /\ UNCHANGED <<refVars, uiVars>>

\* part_004, lines 107-111, and the commit that follows: the key of
\* PdfViewer changes, so the mounted instance is unmounted (its effects'
\* cleanups run) and a new one is mounted, whose effects take over the
\* search text and schedule the first tryScroll and the highlight.
handleRequirementSelect(page, textToHighlight) ==
    /\ query < MaxQueries
    /\ selectedPage' = page
    /\ highlightText' = textToHighlight
    /\ pageChangeKey' = pageChangeKey + 1
    /\ query' = query + 1
    /\ lookups' = 0
    /\ afterFailed' = FailedQueryExhausted
    /\ UNCHANGED pdfFile
    /\ IF pdfFile = 0
       THEN UNCHANGED <<instance, numPages, currentPage, searchText, lastHighlightRef,
                        docLoaded, textLayers, marks, view, timers>>
       ELSE /\ instance' = instance + 1
            /\ numPages' = 0
            /\ currentPage' = 1
            /\ searchText' = textToHighlight
            /\ lastHighlightRef' = textToHighlight
            /\ docLoaded' = FALSE
            /\ textLayers' = {}
            /\ marks' = {}
            /\ view' = NoView
            /\ timers' = ClearTimeoutTimer(ClearTimeoutT(timers))
                           \cup {FirstTimer(instance + 1, query + 1, page)}
                           \cup HighlightTimers(instance + 1, query + 1, page,
                                                textToHighlight)
    /\ UNCHANGED <<refVars, uiVars>>

\* part_004, lines 101-105, and the commit that follows.  From null to a
\* file PdfViewer is mounted, from a file to null it is unmounted, and from
\* a file to a file the instance stays: its effects' cleanups clear the
\* first tryScroll and the highlight callback, usePdfSearch empties the
\* search text, and Document drops the pages of the old file.
handleDocFileChange(file) ==
    /\ query < MaxQueries
    /\ pdfFile' = file
    /\ selectedPage' = 0
    /\ highlightText' = <<>>
    /\ query' = query + 1
    /\ lookups' = 0
    /\ afterFailed' = FALSE
    /\ UNCHANGED pageChangeKey
    /\ searchText' = <<>>
    /\ lastHighlightRef' = <<>>
    /\ docLoaded' = FALSE
    /\ textLayers' = {}
    /\ marks' = {}
    /\ view' = NoView
    /\ IF pdfFile # 0
       THEN /\ timers' = ClearTimeoutTimer(ClearTimeoutT(timers))
            /\ IF file # 0
               THEN UNCHANGED <<instance, numPages, currentPage>>
               ELSE /\ numPages' = 0
                    /\ currentPage' = 1
                    /\ UNCHANGED instance
       ELSE /\ instance' = IF file # 0 THEN instance + 1 ELSE instance
            /\ numPages' = 0
            /\ currentPage' = 1
            /\ UNCHANGED timers
    /\ UNCHANGED <<refVars, uiVars>>

\* PdfViewer.tsx, lines 231-234, called by Document when the file is loaded,
\* and the commit that follows: the pages are rendered, and when numPages
\* changed the scroll effect runs again.
onDocumentLoadSuccess ==
    /\ pdfFile # 0
    /\ ~docLoaded
    /\ numPages' = NumPagesOf(pdfFile)
    /\ currentPage' = 1
    /\ docLoaded' = TRUE
    /\ timers' = IF numPages # NumPagesOf(pdfFile) /\ selectedPage # 0
                 THEN ClearTimeoutT(timers)
                        \cup {FirstTimer(instance, query, selectedPage)}
                 ELSE timers
    /\ UNCHANGED <<pdfFile, selectedPage, highlightText, pageChangeKey, instance,
                   searchText, lastHighlightRef, textLayers, marks, view, query,
                   lookups, afterFailed>>
    /\ UNCHANGED <<refVars, uiVars>>

\* PdfViewer.tsx, lines 424-429: Page renders the text layer of a page.
RenderTextLayer(page) ==
    /\ PageElement(page)
    /\ page \notin textLayers
    /\ textLayers' = textLayers \cup {page}
    /\ UNCHANGED <<pdfFile, selectedPage, highlightText, pageChangeKey, instance,
                   numPages, currentPage, searchText, lastHighlightRef, docLoaded,
                   marks, view, timers, query, lookups,
                   afterFailed>>
    /\ UNCHANGED <<refVars, uiVars>>

\* PdfViewer.tsx, lines 241-251: a call of tryScroll by a timer.
tryScroll(t) ==
    /\ t \in timers
    /\ t.kind \in {"first", "retry"}
    /\ t.delay = 0
    /\ lookups' = IF ViewerRefSet(t.inst) /\ t.q = query THEN lookups + 1 ELSE lookups
    /\ UNCHANGED afterFailed
    /\ IF ~ViewerRefSet(t.inst)
       THEN /\ timers' = timers \ {t}
            /\ UNCHANGED <<view, currentPage>>
       ELSE IF PageElement(t.page)
            THEN /\ view' = [kind |-> "page", page |-> t.page, span |-> 0]
                 /\ currentPage' = t.page
                 /\ timers' = timers \ {t}
            ELSE /\ timers' = IF t.attempts < maxAttempts
                              THEN (timers \ {t})
                                     \cup {[t EXCEPT !.kind = "retry",
                                                     !.attempts = t.attempts + 1,
                                                     !.delay = RetryDelay]}
                              ELSE timers \ {t}
                 /\ UNCHANGED <<view, currentPage>>
    /\ UNCHANGED <<pdfFile, selectedPage, highlightText, pageChangeKey, instance,
                   numPages, searchText, lastHighlightRef, docLoaded, textLayers, marks,
                   query>>
    /\ UNCHANGED <<refVars, uiVars>>

\* A highlight callback that takes the spans of the page without looking
\* for its text layer.
HighlightWithoutTextLayer(t) ==
    /\ t \in timers
    /\ t.kind = "highlight"
    /\ t.delay = 0
    /\ timers' = timers \ {t}
    /\ IF ViewerRefSet(t.inst) /\ PageElement(t.page)
          /\ foundElements(SpansOf(pdfFile, t.page), t.text) # {}
       THEN /\ marks' = marks \cup
                          {<<t.page, i>> :
                             i \in foundElements(SpansOf(pdfFile, t.page), t.text)}
            /\ view' = [kind |-> "span", page |-> t.page,
                        span |-> Least(foundElements(SpansOf(pdfFile, t.page), t.text))]
       ELSE UNCHANGED <<marks, view>>
    /\ UNCHANGED <<pdfFile, selectedPage, highlightText, pageChangeKey, instance,
                   numPages, currentPage, searchText, lastHighlightRef, docLoaded,
                   textLayers, query, lookups, afterFailed>>
    /\ UNCHANGED <<refVars, uiVars>>

\* PdfViewer.tsx, lines 275-337: the callback of highlightTextOnPage.
HighlightCallback(t) ==
    /\ t \in timers
    /\ t.kind = "highlight"
    /\ t.delay = 0
    /\ timers' = timers \ {t}
    /\ IF ViewerRefSet(t.inst) /\ PageElement(t.page) /\ t.page \in textLayers
          /\ foundElements(SpansOf(pdfFile, t.page), t.text) # {}
       THEN /\ marks' = marks \cup
                          {<<t.page, i>> :
                             i \in foundElements(SpansOf(pdfFile, t.page), t.text)}
            /\ view' = [kind |-> "span", page |-> t.page,
                        span |-> Least(foundElements(SpansOf(pdfFile, t.page), t.text))]
       ELSE UNCHANGED <<marks, view>>
    /\ UNCHANGED <<pdfFile, selectedPage, highlightText, pageChangeKey, instance,
                   numPages, currentPage, searchText, lastHighlightRef, docLoaded,
                   textLayers, query, lookups, afterFailed>>
    /\ UNCHANGED <<refVars, uiVars>>

\* part_014, lines 33-36, called by the button of PdfViewer.tsx, lines
\* 394-402, and the commit that follows: the cleanup of the highlight effect
\* clears its callback, and highlightTextOnPage returns at line 259.
clearSearch ==
    /\ pdfFile # 0
    /\ searchText # <<>>
    /\ searchText' = <<>>
    /\ lastHighlightRef' = <<>>
    /\ timers' = ClearTimeoutTimer(timers)
    /\ UNCHANGED <<pdfFile, selectedPage, highlightText, pageChangeKey, instance,
                   numPages, currentPage, docLoaded, textLayers, marks, view, query,
                   lookups, afterFailed>>
    /\ UNCHANGED <<refVars, uiVars>>

\* 50 ms pass while no callback is due.
Tick ==
    /\ timers # {}
    /\ \A t \in timers : t.delay > 0
    /\ timers' = {[t EXCEPT !.delay = t.delay - 1] : t \in timers}
    /\ UNCHANGED <<pdfFile, selectedPage, highlightText, pageChangeKey, instance,
                   numPages, currentPage, searchText, lastHighlightRef, docLoaded,
                   textLayers, marks, view, query, lookups, afterFailed>>
    /\ UNCHANGED <<refVars, uiVars>>

\* App after construction; extractPageReferences is not running.
InitViewer ==
    /\ InitApp
    /\ solution = SolEmpty
    /\ referenceField = Undefined
    /\ sheetToPdfMapping = <<>>
    /\ pc = "idle"
    /\ sheetRefs = <<>>
    /\ index = 0
    /\ sheetRef = <<>>
    /\ pdfPageNum = 0
    /\ fieldRefs = <<>>
    /\ references = <<>>
    /\ result = <<>>
    /\ sortOrders = {}
    /\ history = <<>>
    /\ InitUi

NextViewer ==
    \/ \E page \in 1..MaxPage : \E textToHighlight \in Locators :
           handleRequirementSelect(page, textToHighlight)
    \/ \E file \in 0..MaxFile : handleDocFileChange(file)
    \/ onDocumentLoadSuccess
    \/ \E page \in 1..MaxPage : RenderTextLayer(page)
    \/ \E t \in timers : tryScroll(t)
    \/ \E t \in timers : HighlightCallback(t)
    \/ clearSearch
    \/ Tick

SpecViewer == InitViewer /\ [][NextViewer]_vars

\* The bounds of the model of the status polling: the failed status
\* requests in a row and the status requests without a response.
MaxFailures == 12
MaxRequests == 2

\* The failures after which fetchStatus stops the polling (Header.tsx,
\* line 60).
StopAfter == 10

\* The sequence s without its element i.
RemoveAt(s, i) == SubSeq(s, 1, i - 1) \o SubSeq(s, i + 1, Len(s))

\* clearInterval(statusPollingRef.current) under the condition that the
\* reference is not null (Header.tsx, lines 76-77, 86-87 and 61-62): the
\* intervals that are left.
AfterClearInterval ==
    IF statusPollingRef # NoInterval THEN intervals - 1 ELSE intervals

\* Header.tsx, line 73, with currentStep of line 44.
EndpointOf(confirmed) == IF confirmed THEN "status" ELSE "extraction_status"

\* The progress values of a status response (Header.tsx, line 53).
Progresses == {0, 50}

\* Header.tsx, lines 93-98, called by handleExtractRequirements (line 107)
\* and handleAnalyzeProject (line 133), and the commit that follows: the
\* polling effect runs with loading true and sets the interval, whose
\* callback calls the fetchStatus of this render, in which pollingErrors
\* is 0.
prepareForRequest ==
    /\ ~loading
    /\ loading' = TRUE
    /\ error' = "none"
    /\ analysisProgress' = 0
    /\ pollingErrors' = 0
    /\ statusPollingRef' = 0
    /\ intervals' = AfterClearInterval + 1
    /\ endpoint' = EndpointOf(confirmedRequirements)
    /\ failures' = 0
    /\ UNCHANGED <<statusRequests, extractedRequirements, confirmedRequirements,
                   realTimeStatus>>
    /\ UNCHANGED <<refVars, viewVars, storeVars, flowVars>>

\* The end of a request without the clearInterval of Header.tsx, lines
\* 76-79 and 86-88.
RequestSettledKeepingInterval(ok) ==
    /\ loading
    /\ loading' = FALSE
    /\ error' = IF ok THEN error ELSE "request failed"
    /\ extractedRequirements' = IF ok /\ ~confirmedRequirements THEN TRUE
                                ELSE extractedRequirements
    /\ pollingErrors' = 0
    /\ realTimeStatus' = "null"
    /\ analysisProgress' = 0
    /\ UNCHANGED <<statusPollingRef, intervals, endpoint, statusRequests,
                   confirmedRequirements, failures>>
    /\ UNCHANGED <<refVars, viewVars, storeVars, flowVars>>

\* Header.tsx, lines 111-123 and 139-153: the request of the step has
\* succeeded or failed, loading becomes false, and the polling effect
\* clears the interval and resets pollingErrors (lines 76-82).
RequestSettled(ok) ==
    /\ loading
    /\ loading' = FALSE
    /\ error' = IF ok THEN error ELSE "request failed"
    /\ extractedRequirements' = IF ok /\ ~confirmedRequirements THEN TRUE
                                ELSE extractedRequirements
    /\ pollingErrors' = 0
    /\ statusPollingRef' = NoInterval
    /\ intervals' = AfterClearInterval
    /\ endpoint' = "none"
    /\ realTimeStatus' = "null"
    /\ analysisProgress' = 0
    /\ UNCHANGED <<statusRequests, confirmedRequirements, failures>>
    /\ UNCHANGED <<refVars, viewVars, storeVars, flowVars>>

\* part_004, lines 67-74, and the commit that follows: currentStep of
\* Header becomes 2, so the polling effect runs again; while loading it
\* clears the interval and sets a new one, whose callback calls the
\* fetchStatus of this render.
handleRequirementsConfirmed ==
    /\ extractedRequirements
    /\ ~confirmedRequirements
    /\ confirmedRequirements' = TRUE
    /\ extractedRequirements' = FALSE
    /\ IF loading
       THEN /\ statusPollingRef' = pollingErrors
            /\ intervals' = AfterClearInterval + 1
            /\ endpoint' = EndpointOf(TRUE)
            /\ UNCHANGED <<pollingErrors, realTimeStatus, analysisProgress>>
       ELSE /\ statusPollingRef' = NoInterval
            /\ intervals' = AfterClearInterval
            /\ endpoint' = "none"
            /\ pollingErrors' = 0
            /\ realTimeStatus' = "null"
            /\ analysisProgress' = 0
    /\ UNCHANGED <<loading, error, statusRequests, failures>>
    /\ UNCHANGED <<refVars, viewVars, storeVars, flowVars>>

\* Header.tsx, line 74: the interval fires and its callback calls
\* fetchStatus, which sends the request (line 50).
IntervalFires ==
    /\ statusPollingRef # NoInterval
    /\ Len(statusRequests) < MaxRequests
    /\ statusRequests' = Append(statusRequests, statusPollingRef)
    /\ UNCHANGED <<loading, error, pollingErrors, statusPollingRef,
                   extractedRequirements, confirmedRequirements, failures,
                   statusVars>>
    /\ UNCHANGED <<refVars, viewVars, storeVars, flowVars>>

\* Header.tsx, lines 51-55: the status request i got its response.
StatusReceived(i) ==
    /\ i \in 1..Len(statusRequests)
    /\ statusRequests' = RemoveAt(statusRequests, i)
    /\ realTimeStatus' = "data"
    /\ analysisProgress' \in Progresses
    /\ pollingErrors' = 0
    /\ failures' = 0
    /\ UNCHANGED <<loading, error, statusPollingRef, extractedRequirements,
                   confirmedRequirements, intervals, endpoint>>
    /\ UNCHANGED <<refVars, viewVars, storeVars, flowVars>>

\* Header.tsx, lines 56-67: the status request i failed.  pollingErrors in
\* the condition of line 60 is the constant of the render whose fetchStatus
\* the interval calls.
StatusFailed(i) ==
    /\ i \in 1..Len(statusRequests)
    /\ failures < MaxFailures
    /\ statusRequests' = RemoveAt(statusRequests, i)
    /\ pollingErrors' = pollingErrors + 1
    /\ failures' = failures + 1
    /\ IF statusRequests[i] >= StopAfter
       THEN /\ statusPollingRef' = NoInterval
            /\ intervals' = AfterClearInterval
            /\ endpoint' = "none"
            /\ error' = "connection lost"
       ELSE UNCHANGED <<statusPollingRef, intervals, endpoint, error>>
    /\ UNCHANGED <<loading, extractedRequirements, confirmedRequirements,
                   realTimeStatus, analysisProgress>>
    /\ UNCHANGED <<refVars, viewVars, storeVars, flowVars>>

InitPolling == InitViewer

NextPolling ==
    \/ prepareForRequest
    \/ \E ok \in BOOLEAN : RequestSettled(ok)
    \/ handleRequirementsConfirmed
    \/ IntervalFires
    \/ \E i \in 1..MaxRequests : StatusReceived(i)
    \/ \E i \in 1..MaxRequests : StatusFailed(i)

SpecPolling == InitPolling /\ [][NextPolling]_vars

\* The page loads of a run.
MaxLoads == 4

\* TIMEOUTS.NOTIFICATION_SHORT and TIMEOUTS.NOTIFICATION_LONG in seconds
\* (part_003, lines 26-27).
NotificationShort == 3
NotificationLong == 5

\* The timer timeoutRef.current names, if it is pending.
RefTimeouts == {t \in timeouts : t.id = timeoutRef}

\* The number setTimeout gives to a new timer: one that no pending timer
\* has.
NewTimeout ==
    CHOOSE k \in 1..(Cardinality(timeouts) + 1) :
        \A t \in timeouts : t.id # k

\* showNotification without the clearTimeout of part_014, lines 66-68.
showNotificationKeepingTimer(message, duration) ==
    /\ notification' = message
    /\ timeouts' = timeouts \cup {[id |-> NewTimeout, left |-> duration]}
    /\ timeoutRef' = NewTimeout
    /\ shownBy' = NewTimeout
    /\ hiddenBy' = NotHidden

\* part_014, lines 64-77: the timer of the reference is cleared, the
\* message is shown and a timer of the duration is set.
showNotification(message, duration) ==
    /\ notification' = message
    /\ timeouts' = (timeouts \ RefTimeouts)
                       \cup {[id |-> NewTimeout, left |-> duration]}
    /\ timeoutRef' = NewTimeout
    /\ shownBy' = NewTimeout
    /\ hiddenBy' = NotHidden

\* The mount of useLocalStorage.ts, lines 20-48, without the render that
\* setStoredValue(parsed) of line 28 causes: the save effect has run with
\* initialValue only, so the entry holds the initial state.
PageLoadWithoutRerender ==
    /\ ~mounted
    /\ loads < MaxLoads
    /\ mounted' = TRUE
    /\ loads' = loads + 1
    /\ cleared' = FALSE
    /\ storedValue' = InitialValue
    /\ item' = 0
    /\ UNCHANGED <<restores, notification, noteVars>>
    /\ UNCHANGED <<refVars, viewVars, pollVars, flowVars>>

\* useLocalStorage.ts, lines 20-48, on mount, and the commits that follow.
\* The restore effect reads the entry: a JSON text is parsed, becomes
\* storedValue and is handed to onRestore; a text that does not parse is
\* removed.  The save effect then writes storedValue as it is in each
\* render, last the one of the final render.
PageLoad ==
    /\ ~mounted
    /\ loads < MaxLoads
    /\ mounted' = TRUE
    /\ loads' = loads + 1
    /\ cleared' = FALSE
    /\ IF item \in 0..MaxState
       THEN /\ storedValue' = [val |-> item, initial |-> FALSE]
            /\ restores' = restores + 1
            /\ showNotification(IF item >= 2 THEN "restored results"
                                ELSE "restored state", NotificationLong)
            /\ UNCHANGED item
       ELSE /\ storedValue' = InitialValue
            /\ item' = 0
            /\ UNCHANGED <<restores, notification, noteVars>>
    /\ UNCHANGED <<refVars, viewVars, pollVars, flowVars>>

\* The page is closed or reloaded: App is unmounted, and the cleanup of
\* useNotification clears the timer of the reference (part_014, lines
\* 56-62).
PageUnload ==
    /\ mounted
    /\ mounted' = FALSE
    /\ storedValue' = InitialValue
    /\ notification' = "none"
    /\ timeouts' = timeouts \ RefTimeouts
    /\ timeoutRef' = NoTimeout
    /\ shownBy' = NoTimeout
    /\ hiddenBy' = NotHidden
    /\ UNCHANGED <<item, restores, loads, cleared>>
    /\ UNCHANGED <<refVars, viewVars, pollVars, flowVars>>

\* setStoredValue, called as setAppState by the handlers of App (part_004,
\* lines 67-74 and 83-99), and the save effect of lines 40-48.
setStoredValue(value) ==
    /\ mounted
    /\ storedValue' = [val |-> value, initial |-> FALSE]
    /\ item' = value
    /\ cleared' = FALSE
    /\ UNCHANGED <<mounted, restores, loads, notification, noteVars>>
    /\ UNCHANGED <<refVars, viewVars, pollVars, flowVars>>

\* part_004, lines 114-131, with the reset confirmed, and the commit that
\* follows.  The button is shown when data are stored (Header.tsx, lines
\* 157 and 172).  clearStorage (useLocalStorage.ts, lines 51-60) removes
\* the entry and sets storedValue to initialValue; unless storedValue was
\* initialValue itself the component renders again and the save effect of
\* lines 40-48 writes the entry with the new storedValue.  The document
\* and the selected reference, which handleReset sets to null, are null
\* here.
handleReset ==
    /\ mounted
    /\ storedValue.val # 0
    /\ pdfFile = 0 /\ selectedPage = 0 /\ highlightText = <<>>
    /\ storedValue' = InitialValue
    /\ item' = IF storedValue.initial THEN NoItem ELSE 0
    /\ cleared' = TRUE
    /\ showNotification("storage cleaned", NotificationShort)
    /\ UNCHANGED <<mounted, restores, loads>>
    /\ UNCHANGED <<refVars, viewVars, pollVars, flowVars>>

\* part_014, lines 79-85, called by the button of the notification
\* (part_004, lines 221-232).
hideNotification ==
    /\ notification # "none"
    /\ notification' = "none"
    /\ timeouts' = timeouts \ RefTimeouts
    /\ timeoutRef' = NoTimeout
    /\ shownBy' = NoTimeout
    /\ hiddenBy' = [kind |-> "user", timer |-> NoTimeout, of |-> shownBy]
    /\ UNCHANGED <<mounted, item, storedValue, restores, loads, cleared>>
    /\ UNCHANGED <<refVars, viewVars, pollVars, flowVars>>

\* part_014, lines 73-76: the timer t fires and its callback hides the
\* notification that is shown, whichever call showed it.
TimeoutFires(t) ==
    /\ t \in timeouts
    /\ t.left = 0
    /\ timeouts' = timeouts \ {t}
    /\ timeoutRef' = NoTimeout
    /\ notification' = "none"
    /\ shownBy' = NoTimeout
    /\ hiddenBy' = IF notification # "none"
                   THEN [kind |-> "timer", timer |-> t.id, of |-> shownBy]
                   ELSE hiddenBy
    /\ UNCHANGED <<mounted, item, storedValue, restores, loads, cleared>>
    /\ UNCHANGED <<refVars, viewVars, pollVars, flowVars>>

\* A second passes: no pending timer is due.
SecondPasses ==
    /\ timeouts # {}
    /\ \A t \in timeouts : t.left > 0
    /\ timeouts' = {[t EXCEPT !.left = @ - 1] : t \in timeouts}
    /\ UNCHANGED <<timeoutRef, shownBy, hiddenBy, notification>>
    /\ UNCHANGED <<mounted, item, storedValue, restores, loads, cleared>>
    /\ UNCHANGED <<refVars, viewVars, pollVars, flowVars>>

InitPersistence ==
    /\ InitApp
    /\ solution = SolEmpty
    /\ referenceField = Undefined
    /\ sheetToPdfMapping = <<>>
    /\ pc = "idle"
    /\ sheetRefs = <<>>
    /\ index = 0
    /\ sheetRef = <<>>
    /\ pdfPageNum = 0
    /\ fieldRefs = <<>>
    /\ references = <<>>
    /\ result = <<>>
    /\ sortOrders = {}
    /\ history = <<>>
    /\ InitHeader
    /\ InitStorage
    /\ InitFlow

NextPersistence ==
    \/ PageLoad
    \/ PageUnload
    \/ \E value \in 1..MaxState : setStoredValue(value)
    \/ handleReset
    \/ hideNotification
    \/ \E t \in timeouts : TimeoutFires(t)
    \/ SecondPasses

SpecPersistence == InitPersistence /\ [][NextPersistence]_vars

\* The analyses of a run of the two-step workflow.
MaxAnalyses == 3

\* Header.tsx, line 157.
hasStoredData == appState.confirmedRequirements # 0 \/ appState.analysisCompleted

\* setAppState (part_004, line 45) and the save effect that follows
\* (useLocalStorage.ts, lines 40-48); Header gets the confirmed list as a
\* property (part_004, line 141).
setAppState(value) ==
    /\ appState' = value
    /\ savedState' = value
    /\ confirmedRequirements' = (value.confirmedRequirements # 0)

\* Header.tsx, lines 101-112: the button of step 1 (lines 197-209) sends
\* the document with the requirements.  The status polling this starts is
\* the subject of SpecPolling.
handleExtractRequirements ==
    /\ ~loading
    /\ appState.confirmedRequirements = 0
    /\ loading' = TRUE
    /\ error' = "none"
    /\ request' = [kind |-> "extract", n |-> 0, appState |-> appState]
    /\ UNCHANGED <<appState, showRequirementEditor, analyses, savedState>>
    /\ UNCHANGED <<pollingErrors, statusPollingRef, statusRequests,
                   extractedRequirements, confirmedRequirements, failures>>
    /\ UNCHANGED <<refVars, viewVars, storeVars, statusVars>>

\* Header.tsx, lines 117 and 122, and part_004, lines 61-64: the
\* requirements have arrived and the editor opens.
handleRequirementsExtracted ==
    /\ request.kind = "extract"
    /\ extractedRequirements' = TRUE
    /\ showRequirementEditor' = TRUE
    /\ loading' = FALSE
    /\ request' = NoRequest
    /\ UNCHANGED <<appState, analyses, savedState>>
    /\ UNCHANGED <<error, pollingErrors, statusPollingRef, statusRequests,
                   confirmedRequirements, failures>>
    /\ UNCHANGED <<refVars, viewVars, storeVars, statusVars>>

\* Header.tsx, lines 118-122 and 148-152: the POST failed.
RequestFailed ==
    /\ request.kind # "none"
    /\ error' = "request failed"
    /\ loading' = FALSE
    /\ request' = NoRequest
    /\ UNCHANGED <<appState, showRequirementEditor, analyses, savedState>>
    /\ UNCHANGED <<pollingErrors, statusPollingRef, statusRequests,
                   extractedRequirements, confirmedRequirements, failures>>
    /\ UNCHANGED <<refVars, viewVars, storeVars, statusVars>>

\* The confirmation without currentStep: 2 of part_004, line 71.
onConfirmKeepingStep ==
    /\ showRequirementEditor
    /\ extractedRequirements
    /\ setAppState([appState EXCEPT !.confirmedRequirements = 1])
    /\ showRequirementEditor' = FALSE
    /\ UNCHANGED <<request, analyses>>
    /\ UNCHANGED <<loading, error, pollingErrors, statusPollingRef,
                   statusRequests, extractedRequirements, failures>>
    /\ UNCHANGED <<refVars, viewVars, storeVars, statusVars>>

\* part_004, lines 67-74, called by the editor, which is shown under the
\* condition of line 212.
onConfirm ==
    /\ showRequirementEditor
    /\ extractedRequirements
    /\ setAppState([appState EXCEPT !.confirmedRequirements = 1,
                                    !.currentStep = 2])
    /\ showRequirementEditor' = FALSE
    /\ UNCHANGED <<request, analyses>>
    /\ UNCHANGED <<loading, error, pollingErrors, statusPollingRef,
                   statusRequests, extractedRequirements, failures>>
    /\ UNCHANGED <<refVars, viewVars, storeVars, statusVars>>

\* part_004, lines 77-80, called by the editor.
handleRequirementsCancel ==
    /\ showRequirementEditor
    /\ extractedRequirements
    /\ showRequirementEditor' = FALSE
    /\ extractedRequirements' = FALSE
    /\ UNCHANGED <<appState, request, analyses, savedState>>
    /\ UNCHANGED <<loading, error, pollingErrors, statusPollingRef,
                   statusRequests, confirmedRequirements, failures>>
    /\ UNCHANGED <<refVars, viewVars, storeVars, statusVars>>

\* Header.tsx, lines 127-143: the button of step 2 sends the document of
\* the project.  The handler goes on after the response with the
\* onAnalysisComplete of the render in which the button was pressed, so
\* the request carries the appState of that render.
handleAnalyzeProject ==
    /\ ~loading
    /\ appState.confirmedRequirements # 0
    /\ analyses < MaxAnalyses
    /\ analyses' = analyses + 1
    /\ loading' = TRUE
    /\ error' = "none"
    /\ request' = [kind |-> "analyze", n |-> analyses + 1, appState |-> appState]
    /\ UNCHANGED <<appState, showRequirementEditor, savedState>>
    /\ UNCHANGED <<pollingErrors, statusPollingRef, statusRequests,
                   extractedRequirements, confirmedRequirements, failures>>
    /\ UNCHANGED <<refVars, viewVars, storeVars, statusVars>>

\* part_004, line 93: mapping || appState.sheetToPdfMapping, where mapping
\* is the sheet_to_pdf_mapping of the response or undefined.
MappingOrOld(hasMapping, old, new) == IF hasMapping THEN new ELSE old

\* Header.tsx, lines 145-152, and part_004, lines 83-99: the response of
\* the analysis has arrived, with or without sheet_to_pdf_mapping.
\* appState in lines 89 and 93 is the constant of the render in which the
\* button of step 2 was pressed.
handleAnalysisComplete(hasMapping) ==
    /\ request.kind = "analyze"
    /\ setAppState([request.appState EXCEPT
           !.requirements = request.n,
           !.summary = request.n,
           !.analysisCompleted = TRUE,
           !.sheetToPdfMapping =
               MappingOrOld(hasMapping, request.appState.sheetToPdfMapping,
                            request.n)])
    /\ loading' = FALSE
    /\ request' = NoRequest
    /\ UNCHANGED <<showRequirementEditor, analyses>>
    /\ UNCHANGED <<error, pollingErrors, statusPollingRef, statusRequests,
                   extractedRequirements, failures>>
    /\ UNCHANGED <<refVars, viewVars, storeVars, statusVars>>

\* part_004, lines 114-131, with the reset confirmed, called by the button
\* of Header (Header.tsx, line 172) or by the one under the summary
\* (part_004, lines 191-197).  The document and the selected reference,
\* which it sets to null, are null here.  The request of Header goes on.
onReset ==
    /\ \/ hasStoredData /\ ~loading
       \/ appState.summary # 0
    /\ pdfFile = 0 /\ selectedPage = 0 /\ highlightText = <<>>
    /\ setAppState(initialAppState)
    /\ extractedRequirements' = FALSE
    /\ UNCHANGED <<showRequirementEditor, request, analyses>>
    /\ UNCHANGED <<loading, error, pollingErrors, statusPollingRef,
                   statusRequests, failures>>
    /\ UNCHANGED <<refVars, viewVars, storeVars, statusVars>>

\* The page is loaded again: the states of App and Header are constructed
\* anew, the restore effect (useLocalStorage.ts, lines 23-37) takes the
\* state last saved, and a response to a request of the old page calls
\* nothing.
Reload ==
    /\ setAppState(savedState)
    /\ showRequirementEditor' = FALSE
    /\ extractedRequirements' = FALSE
    /\ loading' = FALSE
    /\ error' = "none"
    /\ request' = NoRequest
    /\ UNCHANGED analyses
    /\ UNCHANGED <<pollingErrors, statusPollingRef, statusRequests, failures>>
    /\ UNCHANGED <<refVars, viewVars, storeVars, statusVars>>

InitWorkflow == InitViewer

NextWorkflow ==
    \/ handleExtractRequirements
    \/ handleRequirementsExtracted
    \/ RequestFailed
    \/ onConfirm
    \/ handleRequirementsCancel
    \/ handleAnalyzeProject
    \/ \E hasMapping \in BOOLEAN : handleAnalysisComplete(hasMapping)
    \/ onReset
    \/ Reload

SpecWorkflow == InitWorkflow /\ [][NextWorkflow]_vars

\* ------------------------------------------------------------------------
\* Properties of extractPageReferences
\* ------------------------------------------------------------------------

\* The pages of a list of references.
PagesOf(refs) == {refs[k].page : k \in 1..Len(refs)}

\* C2 as stated: the list extractPageReferences returns holds no two entries with the
\* same page and is sorted by page in ascending order.
C2_UniqueSortedPages ==
    pc = "done" =>
        \A j, k \in 1..Len(result) :
            j < k => /\ result[j].page # result[k].page
                     /\ (IsNumber(result[j].page) /\ IsNumber(result[k].page))
                            => result[j].page < result[k].page

\* C3: a label that is a key of sheetToPdfMapping resolves to the mapped
\* page, also when the label is itself a number: the mapping is consulted
\* before the numeric parse.
C3_MappingTakesPrecedence ==
    /\ \A label \in DOMAIN sheetToPdfMapping :
           resolveSheetToPdfPage(label, sheetToPdfMapping) = sheetToPdfMapping[label]
    /\ (index > 0 /\ sheetRef \in DOMAIN sheetToPdfMapping)
           => pdfPageNum = sheetToPdfMapping[sheetRef]

\* The label "5" of the reference field, mapped to page 12, resolved to 12.
C3_Witness ==
    /\ index > 0
    /\ sheetRef = Ref5
    /\ Ref5 \in DOMAIN sheetToPdfMapping
    /\ pdfPageNum = 12
    /\ parseInt(sheetRef).val = 5

\* The solution text cites no sheet and no page: it holds neither of the
\* keywords of pageRegex.
NoCitation(text) ==
    /\ ~Includes(toLowerCase(text), TxtList)
    /\ ~Includes(toLowerCase(text), TxtStranic)

\* The reference field holds one label written with ASCII letters, digits,
\* underscores, hyphens and dots that does not start with a digit.
SingleLabel(field) ==
    /\ field # Undefined
    /\ Len(field) > 0
    /\ field[1] \in WordChars \ Digits
    /\ \A k \in 1..Len(field) : field[k] \in WordChars \cup {45, 46}

\* The case of Scenario C: one label that the mapping has no property for
\* and that is no number, and a solution text without citation.
UnresolvableLabelCase ==
    /\ pc = "done"
    /\ SingleLabel(referenceField)
    /\ MapGet(sheetToPdfMapping, referenceField) = 0
    /\ NoCitation(solution)

\* The values between 1 and 499 of the runs of one to three digits of a
\* string that stand between non-word characters or the ends of the string.
StandalonePages(str) ==
    {DigitsValue(SubSeq(str, r[1], r[2]), 0) :
        r \in {q \in (1..Len(str)) \X (1..Len(str)) :
                 /\ q[1] <= q[2]
                 /\ q[2] - q[1] <= 2
                 /\ \A k \in q[1]..q[2] : str[k] \in Digits
                 /\ (q[1] = 1 \/ str[q[1] - 1] \notin WordChars)
                 /\ (q[2] = Len(str) \/ str[q[2] + 1] \notin WordChars)}}
    \cap (1..499)

\* C4 as stated: a label that is neither a key of the mapping nor numeric,
\* with a solution text without citation, yields the empty list.
C4_UnresolvableYieldsEmpty ==
    UnresolvableLabelCase => result = <<>>

\* C4: in that case the list holds one entry for every standalone number
\* between 1 and 499 inside the label, and is empty only when the label holds
\* none.
C4_UnresolvableYieldsStandaloneNumbers ==
    UnresolvableLabelCase =>
        /\ PagesOf(result) = StandalonePages(referenceField)
        /\ (result = <<>>) = (StandalonePages(referenceField) = {})

\* The call of Scenario C, ("No citation here", "ZZ-99", {}), returned one
\* reference to page 99.
C4_Witness ==
    /\ UnresolvableLabelCase
    /\ referenceField = RefZZ99
    /\ solution = SolNoCitation
    /\ sheetToPdfMapping = <<>>
    /\ Len(result) = 1
    /\ result[1].page = 99

\* A string of digits only.
IsDigits(str) ==
    /\ str # Undefined
    /\ Len(str) > 0
    /\ \A k \in 1..Len(str) : str[k] \in Digits

\* C5: a label that is no key of the mapping and parses as an integer n
\* yields an entry for page n with the label as sheet number when
\* 0 < n < 500, and no entry when n = 0 or n >= 500.
C5_NumericFallback ==
    (pc = "done" /\ IsDigits(referenceField)
        /\ referenceField \notin DOMAIN sheetToPdfMapping) =>
        IF 0 < DigitsValue(referenceField, 0) /\ DigitsValue(referenceField, 0) < 500
        THEN \E k \in 1..Len(result) :
                 /\ result[k].page = DigitsValue(referenceField, 0)
                 /\ result[k].sheetNumber = referenceField
        ELSE /\ fieldRefs = <<>>
             /\ \A k \in 1..Len(result) : result[k].sheetNumber # referenceField

\* The call of Scenario B: the label "5" with an empty mapping returned one
\* reference to page 5 with sheet number "5".
C5_Witness ==
    /\ pc = "done"
    /\ referenceField = Ref5
    /\ sheetToPdfMapping = <<>>
    /\ solution = SolScenarioA
    /\ Len(result) = 1
    /\ result[1].page = 5
    /\ result[1].sheetNumber = Ref5

\* C6: when the field pass and the solution pass both produced an entry for
\* a page, the returned list keeps one entry for it, the one of the field
\* pass.
C6_FieldPassEntryWins ==
    pc = "done" =>
        \A i \in 1..Len(fieldRefs) :
            \A j \in (Len(fieldRefs) + 1)..Len(references) :
                references[j].page = fieldRefs[i].page =>
                    /\ Cardinality({k \in 1..Len(result) :
                                      result[k].page = fieldRefs[i].page}) = 1
                    /\ \E k \in 1..Len(result) : result[k] = fieldRefs[i]

\* Both passes produced an entry for the same page, and the two differ.
C6_Witness ==
    /\ pc = "done"
    /\ \E i \in 1..Len(fieldRefs) :
           \E j \in (Len(fieldRefs) + 1)..Len(references) :
               /\ references[j].page = fieldRefs[i].page
               /\ references[j] # fieldRefs[i]

\* "external wall insulation"
PHRASE_WALL == <<101, 120, 116, 101, 114, 110, 97, 108, 32, 119, 97, 108, 108, 32, 105, 110, 115, 117, 108, 97, 116, 105, 111, 110>>

\* "узел примыкания кровли"
PHRASE_ROOF == <<1091, 1079, 1077, 1083, 32, 1087, 1088, 1080, 1084, 1099, 1082, 1072, 1085, 1080, 1103, 32, 1082, 1088, 1086, 1074, 1083, 1080>>

\* "на листе "
TxtNaListe == <<1085, 1072, 32, 1083, 1080, 1089, 1090, 1077, 32>>

\* The solution texts that cite a label as "<keyword> <label>: <phrase>.",
\* with the leading content words of the phrase.
PhraseCitations ==
    {[text |-> SolScenarioA, label |-> RefAR03, lead |-> PHRASE_WALL],
     [text |-> SolScenarioARu, label |-> RefAR03, lead |-> PHRASE_WALL],
     [text |-> SolSheet5Colon, label |-> Ref5, lead |-> PHRASE_ROOF]}

\* The call with such a text and its label, the label being resolvable,
\* returned one reference to the label's page whose locator contains the
\* leading content words of the phrase.
LocatorHoldsPhrase(c) ==
    (/\ pc = "done"
     /\ solution = c.text
     /\ referenceField = c.label
     /\ resolveSheetToPdfPage(c.label, sheetToPdfMapping) # 0) =>
        /\ Len(result) = 1
        /\ result[1].page = resolveSheetToPdfPage(c.label, sheetToPdfMapping)
        /\ result[1].sheetNumber = c.label
        /\ Includes(result[1].description, c.lead)

C8_NeverThrows ==
    /\ pc # "threw"
    /\ (/\ pc = "done"
        /\ solution = SolEmpty
        /\ referenceField = Undefined
        /\ sheetToPdfMapping = <<>>) => result = <<>>

\* A call whose reference field holds a character with a meaning in regular
\* expressions went through the construction of the label's patterns and
\* returned.
C8_Witness ==
    /\ pc = "done"
    /\ referenceField = RefParen
    /\ solution = SolGarbage
    /\ Len(result) = 1
    /\ result[1].page = 5

\* C9 as stated: a locator is at most 150 characters long, and at most 80
\* when the field pass produced it.
C9_LocatorCaps ==
    pc = "done" =>
        \A k \in 1..Len(result) :
            /\ Len(result[k].description) <= 150
            /\ (\E i \in 1..Len(fieldRefs) : fieldRefs[i] = result[k])
                   => Len(result[k].description) <= 80

\* ------------------------------------------------------------------------
\* Properties of the viewer
\* ------------------------------------------------------------------------

\* C1 as stated: once a newer target has been set or the target has been
\* cleared by loading a new document, a callback that belongs to an earlier
\* target neither scrolls the view, nor changes the recorded current page,
\* nor adds highlight marks.
C1_StaleCallbacksDoNothing ==
    [][\A t \in timers :
           (t.q < query /\ (tryScroll(t) \/ HighlightCallback(t))) =>
               /\ view' = view
               /\ currentPage' = currentPage
               /\ marks' \subseteq marks]_vars

\* C10 as stated: after clearSearch no span of a rendered page carries a
\* highlight mark and there is no active search text.
C10_ClearSearchRemovesMarks ==
    [][clearSearch => (marks' = {} /\ searchText' = <<>>)]_vars

\* The spans of a page of the loaded document that a locator matches.
MatchingSpans(page, text) ==
    IF pdfFile = 0 \/ page = 0 \/ Len(Trim(text)) = 0 THEN {}
    ELSE {<<page, i>> : i \in foundElements(SpansOf(pdfFile, page), text)}

\* C11 as stated: every span that carries a highlight mark lies on the
\* target page of the active query, the page and search text PdfViewer
\* holds, and matches its locator; marks of an earlier query never stay
\* beside those of a later one.
C11_MarksBelongToActiveQuery ==
    marks \subseteq MatchingSpans(selectedPage, searchText)

\* The part of C11 that holds: every marked span lies on the page of the
\* reference selected last and matches the locator of that reference, so
\* that marks of two selections never coexist.
MarksBelongToLastSelection ==
    marks \subseteq MatchingSpans(selectedPage, highlightText)

\* The scroll phase of the selected reference has located its page: tryScroll
\* scrolled to it, or the highlight callback scrolled on to one of its spans.
PageLocated ==
    /\ selectedPage # 0
    /\ view.kind \in {"page", "span"}
    /\ view.page = selectedPage

\* C12 as stated: when the page of the selected reference got rendered
\* within the retry budget, so that the scroll phase located it, and its text
\* layer holds a span matching the locator, the highlight phase runs after
\* that and the span ends up marked: once no callback is pending, every
\* matching span carries the mark.
C12_LocatedPageGetsMarked ==
    (/\ PageLocated
     /\ searchText = highlightText
     /\ selectedPage \in textLayers
     /\ MatchingSpans(selectedPage, highlightText) # {}
     /\ Quiescent)
        => MatchingSpans(selectedPage, highlightText) \subseteq marks

\* C13 as stated: when the page of the selected reference never appears,
\* the scroll phase makes at most one first lookup and 10 retries, scrolls
\* nowhere and leaves the recorded current page as it is.
C13_BoundedSilentScroll ==
    PageNeverRendered =>
        /\ lookups <= 1 + maxAttempts
        /\ view = NoView
        /\ currentPage = 1

\* The state of a PdfViewer instance that was just mounted for the selected
\* reference: nothing loaded, nothing marked, nothing scrolled, and of the
\* callbacks of the instance only those of the selected reference.
FreshViewer ==
    /\ numPages = 0 /\ currentPage = 1 /\ ~docLoaded /\ textLayers = {}
    /\ marks = {} /\ view = NoView /\ lookups = 0
    /\ searchText = highlightText /\ lastHighlightRef = highlightText
    /\ {t \in timers : t.inst = instance} =
           {FirstTimer(instance, query, selectedPage)}
               \cup HighlightTimers(instance, query, selectedPage, highlightText)

\* C14: a reference selected after a failed reference has used up its retry
\* budget starts from the state of a freshly mounted viewer, and as long as
\* it is the target everything the viewer holds belongs to it: every
\* callback of the instance is for its page, the view is on its page or
\* nowhere, and the marks are spans of its page that match its locator.
C14_NoResidualState ==
    [][/\ (FailedQueryExhausted /\ pageChangeKey' # pageChangeKey) => FreshViewer'
       /\ afterFailed' =>
              /\ \A t \in timers' : t.inst = instance' => t.page = selectedPage'
              /\ view'.page \in {0, selectedPage'}
              /\ marks' \subseteq MatchingSpans(selectedPage', highlightText')]_vars

\* C14 witness: the reference selected after the failed one was scrolled to
\* and its matching span is marked.
C14_Witness ==
    /\ afterFailed
    /\ view.kind = "span" /\ view.page = selectedPage
    /\ marks # {} /\ marks = MatchingSpans(selectedPage, highlightText)

\* needle occurs in hay when the case of the letters is ignored.
ContainsIgnoringCase(hay, needle) ==
    \E k \in 0..(Len(hay) - Len(needle)) :
        \A j \in 1..Len(needle) : LowerChar(hay[k + j]) = LowerChar(needle[j])

\* The spans of a page of the loaded document whose text contains the
\* locator.
SubstringSpans(page, text) ==
    {<<page, i>> : i \in {k \in 1..Len(SpansOf(pdfFile, page)) :
                             ContainsIgnoringCase(SpansOf(pdfFile, page)[k], text)}}

\* The highlight callback t of the mounted instance finds its page rendered
\* with a text layer.
HighlightOnTextLayer(t) ==
    /\ HighlightCallback(t)
    /\ ViewerRefSet(t.inst)
    /\ PageElement(t.page)
    /\ t.page \in textLayers

\* C15: when the highlight callback runs with the target page rendered and
\* its text layer present, and some span of the page contains the locator
\* as a case-insensitive substring, the marked spans are exactly the spans
\* of the target page that contain it; no span of another page is marked.
C15_ExactTierMarksSubstringSpans ==
    [][\A t \in timers :
           (HighlightOnTextLayer(t) /\ SubstringSpans(t.page, t.text) # {}) =>
               marks' = SubstringSpans(t.page, t.text)]_vars

\* C15 witness (Scenario E): for the locator "external wall insulation" the
\* span "External wall insulation detail" is marked and the span
\* "Insulation of wall", which only shares words with it, is not.
C15_Witness ==
    /\ highlightText = LocExact
    /\ SpansOf(pdfFile, selectedPage) = <<SpanWall, SpanRoof, SpanShuffled>>
    /\ marks = {<<selectedPage, 1>>}
    /\ view = [kind |-> "span", page |-> selectedPage, span |-> 1]

\* The words of a locator that are longer than 2 characters.
WordsOver2(text) ==
    SelectSeq(SplitWs(Trim(toLowerCase(text))), LAMBDA w : Len(w) > 2)

\* The content tokens of a locator: its words longer than 2 characters that
\* are not stop words.
ContentTokens(text) ==
    SelectSeq(WordsOver2(text), LAMBDA w : w \notin StopWords)

\* The least number of tokens that is at least 60% of n tokens.
SixtyPercentOf(n) ==
    CHOOSE m \in 0..n : /\ 10 * m >= 6 * n
                        /\ \A k \in 0..n : 10 * k >= 6 * n => m <= k

\* The spans of a page of the loaded document whose text contains at least
\* 60% of the tokens.
OverlapSpans(page, tokens) ==
    {<<page, i>> :
        i \in {s \in 1..Len(SpansOf(pdfFile, page)) :
                  Cardinality({k \in 1..Len(tokens) :
                                  ContainsIgnoringCase(SpansOf(pdfFile, page)[s],
                                                       tokens[k])})
                      >= SixtyPercentOf(Len(tokens))}}

\* C16 as stated: the token tier runs only when no span contains the
\* locator, and it marks the spans of the target page that contain at
\* least 60%, rounded up, of the content tokens of the locator (words
\* longer than 2 characters that are not stop words).
C16_TokenTierContentTokens ==
    [][\A t \in timers :
           HighlightOnTextLayer(t) =>
               IF SubstringSpans(t.page, t.text) # {}
               THEN marks' = SubstringSpans(t.page, t.text)
               ELSE Len(ContentTokens(t.text)) > 0 =>
                        marks' = OverlapSpans(t.page, ContentTokens(t.text))]_vars

\* C16, amended: the tokens of the token tier are all the words of the
\* locator longer than 2 characters, stop words included.
C16_TokenTierWordsOver2 ==
    [][\A t \in timers :
           HighlightOnTextLayer(t) =>
               IF SubstringSpans(t.page, t.text) # {}
               THEN marks' = SubstringSpans(t.page, t.text)
               ELSE Len(WordsOver2(t.text)) > 0 =>
                        marks' = OverlapSpans(t.page, WordsOver2(t.text))]_vars

\* C16 witness (Scenario F): for the locator "insulation detail external"
\* no span contains the locator, the span "External wall insulation detail"
\* with all three tokens is marked and the span "Insulation of wall" with
\* one token of three is not.
C16_Witness ==
    /\ highlightText = LocTokens
    /\ SpansOf(pdfFile, selectedPage) = <<SpanWall, SpanRoof, SpanShuffled>>
    /\ SubstringSpans(selectedPage, LocTokens) = {}
    /\ marks = {<<selectedPage, 1>>}
    /\ view = [kind |-> "span", page |-> selectedPage, span |-> 1]

\* C17: when the highlight callback of the mounted instance finds the
\* target page rendered without a text layer, no span is marked on any page
\* afterwards and the view stays where it was, which is not on a span.
C17_NoTextLayerNoMarks ==
    [][\A t \in timers :
           (/\ HighlightCallback(t)
            /\ ViewerRefSet(t.inst)
            /\ PageElement(t.page)
            /\ t.page \notin textLayers) =>
               /\ marks' = {}
               /\ view' = view
               /\ view'.kind # "span"]_vars

\* C17 witness: the first lookup found the page, so the page was rendered
\* when the highlight callback ran 450 ms later; the callback has run, the
\* page, whose spans match the locator, still has no text layer, and
\* nothing is marked.
C17_Witness ==
    /\ selectedPage # 0 /\ searchText = highlightText
    /\ MatchingSpans(selectedPage, highlightText) # {}
    /\ lookups = 1
    /\ view = [kind |-> "page", page |-> selectedPage, span |-> 0]
    /\ Quiescent
    /\ selectedPage \notin textLayers
    /\ marks = {}

\* The call that has ended had the arguments of the call h of history.
SameArguments(h) ==
    /\ h.solution = solution
    /\ h.referenceField = referenceField
    /\ h.sheetToPdfMapping = sheetToPdfMapping

C19_PollingStopsAfterTenFailures ==
    (loading /\ failures >= StopAfter) =>
        (statusPollingRef = NoInterval /\ error = "connection lost")

\* The second half of C19: a status request that succeeds sets
\* pollingErrors to 0.
SuccessResetsPollingErrors ==
    [][\A i \in 1..MaxRequests : StatusReceived(i) => pollingErrors' = 0]_vars

\* C20 as stated: when clearStorage, called by handleReset, and the effects
\* it triggers are done,
\* localStorage has no entry of the key and storedValue is initialValue,
\* and the page load that follows restores nothing and does not call
\* onRestore.
C20_ClearedStorageRestoresNothing ==
    [][/\ handleReset => (item' = NoItem /\ storedValue'.val = 0)
       /\ (cleared /\ PageLoad) => (restores' = restores /\ storedValue'.val = 0)]_vars

\* The half of C20 that holds: after clearStorage storedValue has the
\* content of initialValue.
ClearedValueIsInitial == cleared => storedValue.val = 0

\* C21 as stated: for one reference, once the view was scrolled to the
\* first marked span no scroll to the start of the page follows; the scroll
\* to the page comes before the scroll to the span.
C21_PageScrollBeforeSpanScroll ==
    [][(view.kind = "span" /\ query' = query) => view'.kind = "span"]_vars

\* A sheet label: letters, Latin or Cyrillic, and digits, with hyphens or
\* dots inside.
IsSheetLabel(s) ==
    /\ Len(s) > 0
    /\ \A k \in 1..Len(s) :
           s[k] \in WordChars \cup CyrUpper \cup CyrLower \cup {45, 46}
    /\ s[1] \notin {45, 46}
    /\ s[Len(s)] \notin {45, 46}

\* C22 as stated: a reference field that is one sheet label is captured
\* as one token, the whole label, so that the whole label and no part of
\* it is resolved.
C22_LabelIsOneToken ==
    (/\ pc \in {"forEach", "solution", "numbers", "unique", "done"}
     /\ referenceField # Undefined
     /\ IsSheetLabel(referenceField))
        => sheetRefs = <<referenceField>>

\* The tokens the highlight callback t will use (PdfViewer.tsx, lines 289
\* and 293).
TokensOfCallback(t) == searchTokens(Trim(toLowerCase(t.text)))

\* C23 as stated: the tokens of the token tier, for the highlight callback
\* a selection has just scheduled, are the words of the locator longer than
\* 2 characters that are not stop words.
C23_TokensExcludeStopWords ==
    \A t \in timers :
        (t.kind = "highlight" /\ t.delay = HighlightDelay) =>
            TokensOfCallback(t) = ContentTokens(t.text)

\* C23, amended: the tokens of the token tier are all the words of the
\* locator longer than 2 characters; a stop word longer than 2 characters
\* is a token and counts toward the threshold.
C23_TokensIncludeStopWords ==
    \A t \in timers :
        (t.kind = "highlight" /\ t.delay = HighlightDelay) =>
            TokensOfCallback(t) = WordsOver2(t.text)

\* C23 witness: the highlight callback for the locator "план для кровли
\* или стен" is pending, and its five tokens include the stop words "для"
\* and "или".
C23_Witness ==
    \E t \in timers :
        /\ t.kind = "highlight"
        /\ t.text = LocStop
        /\ Len(TokensOfCallback(t)) = 5
        /\ \E j \in 1..5 : TokensOfCallback(t)[j] \in StopWords

\* ------------------------------------------------------------------------
\* Properties of the two-step workflow

\* C24: the mapping App hands to RequirementList (part_004, line 160)
\* with the requirements of an analysis is the mapping of that analysis,
\* or empty; it is never the mapping of an earlier analysis.
C24_MappingOfSameAnalysis ==
    appState.requirements # 0 =>
        appState.sheetToPdfMapping \in {0, appState.requirements}

\* C28: once a reset has put the application state back to the initial
\* one while an analysis is running, the response of that analysis leaves
\* the state initial.  (An analysis starts with confirmed requirements, so
\* the state is initial during an analysis only after a reset.)
C28_ResponseAfterResetIgnored ==
    [][(appState = initialAppState /\ request.kind = "analyze") =>
           appState' = initialAppState]_vars

\* ------------------------------------------------------------------------
\* Properties of the status polling and of the progress display

\* C25: an interval is set exactly while a request is loading, it asks
\* extraction_status in step 1 and status in step 2, and never more than
\* one interval is set.
C25_PollingExactlyWhileLoading ==
    /\ (statusPollingRef # NoInterval) <=> loading
    /\ statusPollingRef # NoInterval =>
           endpoint = EndpointOf(confirmedRequirements)
    /\ intervals <= 1

\* C25 as the code has it: an interval is set only while a request is
\* loading, it is the one of the reference and asks the endpoint of the
\* step, and never more than one is set; while loading the interval is
\* missing only after fetchStatus has cleared it and set the error of the
\* lost connection.
C25_PollingOnlyWhileLoading ==
    /\ statusPollingRef # NoInterval => loading
    /\ intervals = IF statusPollingRef # NoInterval THEN 1 ELSE 0
    /\ statusPollingRef # NoInterval =>
           endpoint = EndpointOf(confirmedRequirements)
    /\ (loading /\ statusPollingRef = NoInterval) => error = "connection lost"

C25_Witness ==
    /\ loading
    /\ statusPollingRef = NoInterval
    /\ intervals = 0
    /\ confirmedRequirements

\* The step Header shows (Header.tsx, line 44).
HeaderStep == IF confirmedRequirements THEN 2 ELSE 1

\* C30: the application is in step 2 exactly when a confirmed list
\* exists, Header shows the step of App, and a completed analysis implies
\* step 2; the same holds of the state saved for the next restore.
C30_StepTwoIffConfirmed ==
    /\ appState.currentStep = 2 <=> appState.confirmedRequirements # 0
    /\ HeaderStep = appState.currentStep
    /\ appState.analysisCompleted => appState.currentStep = 2
    /\ savedState.currentStep = 2 <=> savedState.confirmedRequirements # 0
    /\ savedState.analysisCompleted => savedState.currentStep = 2

\* The results of the second analysis are in the state in step 2, after a
\* reset or a page load has emptied the editor.
C30_Witness ==
    /\ appState.analysisCompleted
    /\ appState.currentStep = 2
    /\ appState.requirements = 2
    /\ ~extractedRequirements
    /\ request = NoRequest

\* C29: while no request is loading the progress is 0 and the real-time
\* status is null, whatever status responses arrive.
C29_StatusStaysResetAfterLoading ==
    ~loading => (realTimeStatus = "null" /\ analysisProgress = 0)

\* ------------------------------------------------------------------------
\* Properties of the notifications and of the stored state

\* C26: at most one timer of useNotification is pending; a timer that
\* hides a notification is the one set by the call that showed it (so it
\* fires after the duration of that notification); after the unmount no
\* timer is pending.
C26_OneTimerHidesItsOwnNotification ==
    /\ Cardinality(timeouts) <= 1
    /\ hiddenBy.kind = "timer" => hiddenBy.timer = hiddenBy.of
    /\ ~mounted => timeouts = {}

\* A notification shown while the timer of an earlier one was pending has
\* been hidden by its own timer.
C26_Witness ==
    /\ hiddenBy.kind = "timer"
    /\ hiddenBy.timer = 2
    /\ cleared
    /\ timeouts = {}

====
